---- MODULE Spec2Model ----
(***************************************************************************)
(* A model of the tlox tree-walking interpreter: the resolver              *)
(* (src/src/parser/resolver.rs) and the interpreter                        *)
(* (src/src/interpreter/*.rs) run over small abstract syntax trees.        *)
(*                                                                         *)
(* Shared, reference-counted cells (Rc<RefCell<..>>) are modelled as       *)
(* indices into two heaps kept in the interpreter state: envs              *)
(* (Environment cells) and objs (Object cells).  A Rust clone() of a cell  *)
(* is a fresh heap cell with the same content; a clone of an Rc is the     *)
(* same index.  The AST is kept as nested records instead of the two       *)
(* arenas; a handle is the node itself.                                    *)
(***************************************************************************)
EXTENDS Integers, Sequences, FiniteSets, TLC

\* ---------------------------------------------------------------- bounds
\* longest program built from the statement pool
MaxProg == 2
\* iterations of one while loop after which the run counts as not terminating
MaxLoop == 4

\* ---------------------------------------------------------------- tokens
Tok(typ, lexeme, seq) == [typ |-> typ, lexeme |-> lexeme, seq |-> seq]
NoTok == Tok("None", "", 0)
Ident(lexeme, seq) == Tok("Identifier", lexeme, seq)

\* ---------------------------------------------------------------- maps (HashMap<String, _>)
EmptyMap == [x \in {} |-> 0]
MapPut(m, k, v) == [x \in (DOMAIN m) \cup {k} |-> IF x = k THEN v ELSE m[x]]
MapHas(m, k) == k \in DOMAIN m

\* ---------------------------------------------------------------- runtime values (Literal)
Nothing == [t |-> "Nothing"]
LitNumber(n) == [t |-> "Number", n |-> n]
LitBool(b) == [t |-> "Bool", b |-> b]
LitStr(chars) == [t |-> "Str", chars |-> chars]
LitFun(f) == [t |-> "Fun", f |-> f]
LitGet(f) == [t |-> "Get", f |-> f]
LitClass(c) == [t |-> "Class", c |-> c]
LitInstance(i) == [t |-> "Instance", i |-> i]
\* Instance::Static holds a class, Instance::Dynamic a shared Object cell
Static(c) == [k |-> "Static", c |-> c]
Dynamic(ref) == [k |-> "Dynamic", ref |-> ref]

\* ---------------------------------------------------------------- results
\* RuntimeResult<T>: Ok(v) is err = "", Err(RuntimeError{token, message}) carries both.
\* err = "panic" is a Rust panic (the process aborts), err = "diverge" a loop
\* that ran past MaxLoop.  trace is the history the properties are stated on:
\* one record per step the interpreter takes, in order.
Ok(s, v) == [s |-> s, err |-> "", tok |-> NoTok, v |-> v]
Log(s, e) == [s EXCEPT !.trace = Append(@, e)]
Err(s, tok, message) ==
    [s |-> Log(s, [ev |-> "raise", message |-> message, seq |-> tok.seq]),
     err |-> message, tok |-> tok, v |-> Nothing]
Panic(s) == [s |-> s, err |-> "panic", tok |-> NoTok, v |-> Nothing]
Diverge(s) == [s |-> s, err |-> "diverge", tok |-> NoTok, v |-> Nothing]
IsOk(r) == r.err = ""
\* let v be the value that K is about
Let(v, K(_)) == K(v)
\* the ? operator: the error of r, or K of what r holds
Try(r, K(_)) == IF IsOk(r) THEN K(r) ELSE r

\* ---------------------------------------------------------------- Environment
Environment_new(outer_scope) == [values |-> EmptyMap, outer_scope |-> outer_scope]

\* Rc::new(RefCell::new(env)): a fresh cell; its index is Len(s.envs) + 1
AllocEnv(s, env) == [s EXCEPT !.envs = Append(@, env)]

define(s, e, name, value) == [s EXCEPT !.envs[e].values = MapPut(@, name, value)]

RECURSIVE get(_, _, _)
get(s, e, lexeme) ==
    IF MapHas(s.envs[e].values, lexeme)
    THEN [found |-> TRUE, v |-> s.envs[e].values[lexeme]]
    ELSE IF s.envs[e].outer_scope # 0
         THEN get(s, s.envs[e].outer_scope, lexeme)
         ELSE [found |-> FALSE, v |-> Nothing]

\* ancestor starts from a clone of the frame it is called on: at distance 0
\* the cell it returns is that temporary copy (copy = TRUE), at a larger
\* distance it is a shared frame of the chain.
RECURSIVE ancestor(_, _, _, _)
ancestor(s, e, distance, copy) ==
    IF distance = 0
    THEN [found |-> TRUE, copy |-> copy, frame |-> e]
    ELSE IF s.envs[e].outer_scope # 0
         THEN ancestor(s, s.envs[e].outer_scope, distance - 1, FALSE)
         ELSE [found |-> FALSE, copy |-> FALSE, frame |-> 0]

get_at(s, e, lexeme, distance) ==
    LET a == ancestor(s, e, distance, TRUE)
    IN  IF a.found /\ MapHas(s.envs[a.frame].values, lexeme)
        THEN [found |-> TRUE, v |-> s.envs[a.frame].values[lexeme]]
        ELSE [found |-> FALSE, v |-> Nothing]

\* an assign that makes the binding in the last frame of the chain when no
\* frame has the name
RECURSIVE assign_creating(_, _, _, _)
assign_creating(s, e, name, value) ==
    IF MapHas(s.envs[e].values, name.lexeme) \/ s.envs[e].outer_scope = 0
    THEN [s |-> [s EXCEPT !.envs[e].values = MapPut(@, name.lexeme, value)], err |-> "",
          tok |-> [typ |-> "", lexeme |-> "", seq |-> 0], v |-> [t |-> "Nothing"]]
    ELSE assign_creating(s, s.envs[e].outer_scope, name, value)

RECURSIVE assign(_, _, _, _)
assign(s, e, name, value) ==
    IF MapHas(s.envs[e].values, name.lexeme)
    THEN Ok([s EXCEPT !.envs[e].values = MapPut(@, name.lexeme, value)], Nothing)
    ELSE IF s.envs[e].outer_scope # 0
         THEN assign(s, s.envs[e].outer_scope, name, value)
         ELSE Err(s, name, "Undefined variable")

\* the insert goes into the cell ancestor returned; the temporary copy is
\* dropped at the end of the call, so a write into it changes no frame
assign_at(s, e, name, value, distance) ==
    LET a == ancestor(s, e, distance, TRUE)
    IN  IF ~a.found THEN Err(s, name, "Undefined variable")
        ELSE IF a.copy THEN Ok(s, Nothing)
        ELSE Ok([s EXCEPT !.envs[a.frame].values = MapPut(@, name.lexeme, value)], Nothing)

\* ---------------------------------------------------------------- Option
None == <<>>
Some(x) == <<x>>
IsSome(o) == Len(o) = 1

\* ---------------------------------------------------------------- AST (Expr / Stmt)
\* the node shapes are the ones Interpreter::visit_expr and visit_stmt match on
ELiteral(value) == [k |-> "Literal", value |-> value]
EVariable(name) == [k |-> "Variable", name |-> name]
EAssign(name, value) == [k |-> "Assign", name |-> name, value |-> value]
EBinary(left, operator, right) ==
    [k |-> "Binary", left |-> left, operator |-> operator, right |-> right]
ELogical(left, operator, right) ==
    [k |-> "Logical", left |-> left, operator |-> operator, right |-> right]
ETernary(left, middle, right) ==
    [k |-> "Ternary", left |-> left, middle |-> middle, right |-> right]
EGrouping(group) == [k |-> "Grouping", group |-> group]
EUnary(operator, right) == [k |-> "Unary", operator |-> operator, right |-> right]
ECall(callee, right_paren, arguments) ==
    [k |-> "Call", callee |-> callee, right_paren |-> right_paren, arguments |-> arguments]
ELambda(params, body) == [k |-> "Lambda", params |-> params, body |-> body]
EGet(object, name) == [k |-> "Get", object |-> object, name |-> name]
ESet(object, name, value) == [k |-> "Set", object |-> object, name |-> name, value |-> value]
EThis(name) == [k |-> "This", name |-> name]
ESuper(keyword, method) == [k |-> "Super", keyword |-> keyword, method |-> method]

SExpression(expr) == [k |-> "Expression", expr |-> expr]
SPrint(expr) == [k |-> "Print", expr |-> expr]
SVar(name, initializer) == [k |-> "Var", name |-> name, initializer |-> initializer]
SBlock(statements) == [k |-> "Block", statements |-> statements]
SIf(condition, then_branch, else_branch) ==
    [k |-> "If", condition |-> condition, then_branch |-> then_branch,
     else_branch |-> else_branch]
\* (the loop body is kept in the field loop: body is a statement list elsewhere)
SWhile(condition, body) == [k |-> "While", condition |-> condition, loop |-> body]
SFunction(name, params, body) ==
    [k |-> "Function", name |-> name, params |-> params, body |-> body]
SGetter(name, body) == [k |-> "Getter", name |-> name, body |-> body]
SReturn(keyword, value) == [k |-> "Return", keyword |-> keyword, value |-> value]
SClass(name, methods, super_class) ==
    [k |-> "Class", name |-> name, methods |-> methods, super_class |-> super_class]

\* Expr::Literal(Literal::Nothing): what the parser stores for an absent
\* initializer or return value, and for the literal nil
IsNilLiteral(expr) == expr.k = "Literal" /\ expr.value.t = "Nothing"

\* the sequence numbers of the tokens that occur in a node
RECURSIVE ExprToks(_), StmtToks(_), ExprsToks(_), StmtsToks(_)
ExprToks(e) ==
    CASE e.k = "Literal" -> {}
      [] e.k = "Variable" -> {e.name.seq}
      [] e.k = "Assign" -> {e.name.seq} \cup ExprToks(e.value)
      [] e.k \in {"Binary", "Logical"} ->
            {e.operator.seq} \cup ExprToks(e.left) \cup ExprToks(e.right)
      [] e.k = "Ternary" -> ExprToks(e.left) \cup ExprToks(e.middle) \cup ExprToks(e.right)
      [] e.k = "Grouping" -> ExprToks(e.group)
      [] e.k = "Unary" -> {e.operator.seq} \cup ExprToks(e.right)
      [] e.k = "Call" -> {e.right_paren.seq} \cup ExprToks(e.callee) \cup ExprsToks(e.arguments)
      [] e.k = "Lambda" -> {p.seq : p \in {e.params[i] : i \in DOMAIN e.params}}
                             \cup StmtsToks(e.body)
      [] e.k = "Get" -> {e.name.seq} \cup ExprToks(e.object)
      [] e.k = "Set" -> {e.name.seq} \cup ExprToks(e.object) \cup ExprToks(e.value)
      [] e.k = "This" -> {e.name.seq}
      [] e.k = "Super" -> {e.keyword.seq, e.method.seq}
ExprsToks(es) == IF es = <<>> THEN {} ELSE ExprToks(Head(es)) \cup ExprsToks(Tail(es))
StmtToks(st) ==
    CASE st.k \in {"Expression", "Print"} -> ExprToks(st.expr)
      [] st.k = "Var" -> {st.name.seq} \cup ExprToks(st.initializer)
      [] st.k = "Block" -> StmtsToks(st.statements)
      [] st.k = "If" -> ExprToks(st.condition) \cup StmtToks(st.then_branch)
                          \cup StmtsToks(st.else_branch)
      [] st.k = "While" -> ExprToks(st.condition) \cup StmtToks(st.loop)
      [] st.k = "Function" -> {st.name.seq} \cup StmtsToks(st.body)
                                \cup {p.seq : p \in {st.params[i] : i \in DOMAIN st.params}}
      [] st.k = "Getter" -> {st.name.seq} \cup StmtsToks(st.body)
      [] st.k = "Return" -> {st.keyword.seq} \cup ExprToks(st.value)
      [] st.k = "Class" -> {st.name.seq} \cup StmtsToks(st.methods)
                             \cup ExprsToks(st.super_class)
StmtsToks(sts) == IF sts = <<>> THEN {} ELSE StmtToks(Head(sts)) \cup StmtsToks(Tail(sts))

\* the token visit_expr meets first when it evaluates e (0: none)
RECURSIVE RootTok(_)
RootTok(e) ==
    CASE e.k \in {"Variable", "Assign", "Get", "Set", "This"} -> e.name.seq
      [] e.k \in {"Binary", "Logical", "Unary"} -> e.operator.seq
      [] e.k = "Call" -> e.right_paren.seq
      [] e.k = "Super" -> e.keyword.seq
      [] e.k = "Grouping" -> RootTok(e.group)
      [] e.k = "Ternary" -> RootTok(e.left)
      [] OTHER -> 0

\* ---------------------------------------------------------------- Function, Class, Object
Function_new(name, params, body, parent, is_initializer) ==
    [arity |-> Len(params), name |-> name, params |-> params, body |-> body,
     closure |-> parent, is_initializer |-> is_initializer]

Class_new(name, methods, super_class) ==
    [name |-> name, methods |-> methods, super_class |-> super_class]

RECURSIVE find_method(_, _)
find_method(class, name) ==
    IF MapHas(class.methods, name) THEN Some(class.methods[name])
    ELSE IF IsSome(class.super_class) THEN find_method(class.super_class[1], name)
    ELSE None

Object_new(class) == [class |-> class, fields |-> EmptyMap]
AllocObj(s, obj) == [s EXCEPT !.objs = Append(@, obj)]

\* a new function whose closure is a fresh frame {this} on top of the old closure
bind(s, f, instance, is_getter) ==
    LET env == [Environment_new(f.closure) EXCEPT
                    !.values = MapPut(@, "this", LitInstance(instance))]
        s1 == AllocEnv(s, env)
        function == Function_new(f.name, f.params, f.body, Len(s1.envs), f.is_initializer)
    IN  Ok(s1, IF is_getter THEN LitGet(function) ELSE LitFun(function))

\* Object::get binds the method to Rc::new(RefCell::new(self.clone())): a new
\* Object cell holding a copy of the receiver
Object_get(s, ref, name) ==
    LET self == s.objs[ref]
        m == find_method(self.class, name.lexeme)
    IN  IF MapHas(self.fields, name.lexeme) THEN Ok(s, self.fields[name.lexeme])
        ELSE IF IsSome(m) /\ m[1].t = "Fun"
        THEN LET s1 == AllocObj(s, self)
                 this == Len(s1.objs)
             IN  bind(Log(s1, [ev |-> "bind", receiver |-> ref, this |-> this]),
                      m[1].f, Dynamic(this), FALSE)
        ELSE Err(s, name, "Undefined property")

Object_set(s, ref, name, value) ==
    Ok([s EXCEPT !.objs[ref].fields = MapPut(@, name.lexeme, value)], value)

Class_get(s, class, name) ==
    LET m == find_method(class, name.lexeme)
    IN  IF IsSome(m) /\ m[1].t = "Fun" THEN bind(s, m[1].f, Static(class), FALSE)
        ELSE Err(s, name, "Undefined property")

\* ---------------------------------------------------------------- equality (derived PartialEq)
\* Literal, Function, Class, Object and Environment all derive PartialEq, and
\* Rc<RefCell<T>> compares the contents of the two cells, so == is structural
\* all the way down.  The outcome is "T", "F", or "O" when the comparison comes
\* back to a pair of cells it is already comparing (unbounded recursion: the
\* process dies of stack overflow).  Struct fields are compared in declaration
\* order and stop at the first false; a HashMap is compared entry by entry in
\* an order the program does not control, so when one entry is false and
\* another recurses without end either outcome is possible: order picks it.
AndThen(a, b) == IF a = "T" THEN b ELSE a
TF(b) == IF b THEN "T" ELSE "F"

RECURSIVE LitEq(_, _, _, _, _), EnvEq(_, _, _, _, _), ObjEq(_, _, _, _, _),
          ClassEq(_, _, _, _, _), FunEq(_, _, _, _, _), MapEq(_, _, _, _, _)
MapEq(s, m1, m2, path, order) ==
    IF DOMAIN m1 # DOMAIN m2 THEN "F"
    ELSE LET rs == {LitEq(s, m1[k], m2[k], path, order) : k \in DOMAIN m1}
         IN  IF "F" \in rs /\ "O" \in rs THEN order
             ELSE IF "F" \in rs THEN "F"
             ELSE IF "O" \in rs THEN "O"
             ELSE "T"
EnvEq(s, e1, e2, path, order) ==
    IF <<"env", e1, e2>> \in path THEN "O"
    ELSE LET p == path \cup {<<"env", e1, e2>>}
             a == MapEq(s, s.envs[e1].values, s.envs[e2].values, p, order)
         IN  IF a # "T" THEN a
             ELSE IF s.envs[e1].outer_scope = 0 \/ s.envs[e2].outer_scope = 0
             THEN TF(s.envs[e1].outer_scope = s.envs[e2].outer_scope)
             ELSE EnvEq(s, s.envs[e1].outer_scope, s.envs[e2].outer_scope, p, order)
FunEq(s, f1, f2, path, order) ==
    IF f1.arity # f2.arity \/ f1.name # f2.name \/ f1.params # f2.params
       \/ f1.body # f2.body
    THEN "F"
    ELSE AndThen(EnvEq(s, f1.closure, f2.closure, path, order),
                 TF(f1.is_initializer = f2.is_initializer))
ClassEq(s, c1, c2, path, order) ==
    IF c1.name # c2.name THEN "F"
    ELSE LET a == MapEq(s, c1.methods, c2.methods, path, order)
         IN  IF a # "T" THEN a
             ELSE IF ~IsSome(c1.super_class) \/ ~IsSome(c2.super_class)
             THEN TF(IsSome(c1.super_class) = IsSome(c2.super_class))
             ELSE ClassEq(s, c1.super_class[1], c2.super_class[1], path, order)
ObjEq(s, o1, o2, path, order) ==
    IF <<"obj", o1, o2>> \in path THEN "O"
    ELSE LET p == path \cup {<<"obj", o1, o2>>}
             a == ClassEq(s, s.objs[o1].class, s.objs[o2].class, p, order)
         IN  IF a # "T" THEN a
             ELSE MapEq(s, s.objs[o1].fields, s.objs[o2].fields, p, order)
LitEq(s, l, r, path, order) ==
    IF l.t # r.t THEN "F"
    ELSE CASE l.t = "Nothing" -> "T"
           [] l.t = "Number" -> TF(l.n = r.n)
           [] l.t = "Bool" -> TF(l.b = r.b)
           [] l.t = "Str" -> TF(l.chars = r.chars)
           [] l.t \in {"Fun", "Get"} -> FunEq(s, l.f, r.f, path, order)
           [] l.t = "Class" -> ClassEq(s, l.c, r.c, path, order)
           [] l.t = "Instance" ->
                IF l.i.k # r.i.k THEN "F"
                ELSE IF l.i.k = "Static" THEN ClassEq(s, l.i.c, r.i.c, path, order)
                ELSE ObjEq(s, l.i.ref, r.i.ref, path, order)

is_equal(s, left, right) == LitEq(s, left, right, {}, s.hash_order)

is_truthy(value) ==
    CASE value.t = "Nothing" -> FALSE
      [] value.t = "Bool" -> value.b
      [] OTHER -> TRUE

\* self.return_value != Literal::Nothing
Pending(s) == s.return_value.t # "Nothing"

\* ---------------------------------------------------------------- arithmetic
\* numbers are integers here; a string is its sequence of characters and
\* format!("{}", n) writes the decimal digits of n
Digit(d) == CASE d = 0 -> "0" [] d = 1 -> "1" [] d = 2 -> "2" [] d = 3 -> "3"
              [] d = 4 -> "4" [] d = 5 -> "5" [] d = 6 -> "6" [] d = 7 -> "7"
              [] d = 8 -> "8" [] d = 9 -> "9"
RECURSIVE Digits(_)
Digits(n) ==
    IF n < 0 THEN <<"-">> \o Digits(0 - n)
    ELSE IF n < 10 THEN <<Digit(n)>>
    ELSE Digits(n \div 10) \o <<Digit(n % 10)>>

calculate_addition(s, left, operator, right) ==
    CASE left.t = "Number" /\ right.t = "Number" -> Ok(s, LitNumber(right.n + left.n))
      [] left.t = "Number" /\ right.t = "Str" -> Ok(s, LitStr(Digits(left.n) \o right.chars))
      [] left.t = "Str" /\ right.t = "Number" -> Ok(s, LitStr(left.chars \o Digits(right.n)))
      [] left.t = "Str" /\ right.t = "Str" -> Ok(s, LitStr(left.chars \o right.chars))
      [] OTHER -> Err(s, operator, "Cannot add operands.")

calculate_number(s, left, operator, right) ==
    IF left.t = "Number" /\ right.t = "Number"
    THEN CASE operator.typ = "Minus" -> Ok(s, LitNumber(left.n - right.n))
           [] operator.typ = "Star" -> Ok(s, LitNumber(left.n * right.n))
           [] operator.typ = "Slash" ->
                IF right.n = 0 THEN Err(s, operator, "Cannot divide by zero.")
                ELSE Ok(s, LitNumber(left.n \div right.n))
           [] OTHER -> Err(s, operator, "Uknown operator for numbers.")
    ELSE Err(s, operator, "Operand must be a number")

calculate_bool(s, left, operator, right) ==
    IF left.t = "Number" /\ right.t = "Number"
    THEN CASE operator.typ = "Greater" -> Ok(s, LitBool(left.n > right.n))
           [] operator.typ = "GreaterEqual" -> Ok(s, LitBool(left.n >= right.n))
           [] operator.typ = "Less" -> Ok(s, LitBool(left.n < right.n))
           [] operator.typ = "LessEqual" -> Ok(s, LitBool(left.n <= right.n))
           [] OTHER -> Err(s, operator, "Uknown operator for numbers.")
    ELSE Err(s, operator, "Cannot compare non-booleans.")

\* ---------------------------------------------------------------- Interpreter
\* The interpreter state s: envs and objs are the heaps, environment the
\* current frame, globals is frame 1.  depth counts the function calls in
\* progress and, like trace, is history only.
Globals == 1

Interpreter_new(locals, order) ==
    [envs |-> <<Environment_new(0)>>, objs |-> <<>>, environment |-> Globals,
     in_initializer |-> FALSE, locals |-> locals, return_value |-> Nothing,
     hash_order |-> order, trace |-> <<>>, depth |-> 0, blocks |-> <<>>]

Exec(s, kind) == Log(s, [ev |-> "exec", kind |-> kind, depth |-> s.depth])
Eval(s, tok) == Log(s, [ev |-> "eval", seq |-> tok.seq, depth |-> s.depth])

RECURSIVE visit_stmt(_, _), visit_expr(_, _), visit_block_stmt(_, _, _),
          block_loop(_, _, _), while_loop(_, _, _, _, _), eval_args(_, _, _),
          Function_call(_, _, _), Class_call(_, _, _), class_methods(_, _, _)

visit_expression_stmt(s, expr) ==
    IF Pending(s) THEN Ok(s, Nothing)
    ELSE Try(visit_expr(Exec(s, "Expression"), expr), LAMBDA r : Ok(r.s, Nothing))

visit_print_stmt(s, expr) ==
    IF Pending(s) THEN Ok(s, Nothing)
    ELSE Try(visit_expr(Exec(s, "Print"), expr),
             LAMBDA r : Ok(Log(r.s, [ev |-> "print", value |-> r.v]), Nothing))

visit_var_stmt(s, name, initializer) ==
    IF Pending(s) THEN Ok(s, Nothing)
    ELSE Try(IF IsNilLiteral(initializer) THEN Ok(Exec(s, "Var"), Nothing)
             ELSE visit_expr(Exec(s, "Var"), initializer),
             LAMBDA r : Ok(define(r.s, r.s.environment, name.lexeme, r.v), Nothing))

\* the frames on the chain from e out to the globals
RECURSIVE chain(_, _)
chain(s, e) == IF e = 0 THEN {} ELSE {e} \cup chain(s, s.envs[e].outer_scope)

\* the way into a block: the frame made for it and what the current
\* environment was before
enter(s, frame, environment) ==
    [s EXCEPT !.blocks = Append(@, [ev |-> "enter", frame |-> frame, path |-> "",
                                    environment |-> environment, chain |-> {}])]

\* the way out of a block: what the current environment is once
\* visit_block_stmt has returned, and the frames that can be reached from it
leave(s, frame, path) ==
    [s EXCEPT !.blocks = Append(@, [ev |-> "leave", frame |-> frame, path |-> path,
                                    environment |-> s.environment,
                                    chain |-> chain(s, s.environment)])]

\* block_loop without self.environment = previous on the error path
RECURSIVE block_loop_leaky(_, _, _)
block_loop_leaky(s, statements, previous) ==
    IF statements = <<>>
    THEN Ok(leave([s EXCEPT !.environment = previous], s.environment, "end"), Nothing)
    ELSE Let(visit_stmt(s, Head(statements)), LAMBDA r :
             IF ~IsOk(r)
             THEN IF r.err \in {"panic", "diverge"} THEN r
                  ELSE [r EXCEPT !.s = leave(r.s, s.environment, "error")]
             ELSE IF Pending(r.s)
             THEN Ok(leave([r.s EXCEPT !.environment = previous], s.environment, "return"),
                     Nothing)
             ELSE block_loop_leaky(r.s, Tail(statements), previous))

\* the loop of visit_block_stmt: previous is restored on every way out (when
\* the process dies there is no way out)
block_loop(s, statements, previous) ==
    IF statements = <<>>
    THEN Ok(leave([s EXCEPT !.environment = previous], s.environment, "end"), Nothing)
    ELSE Let(visit_stmt(s, Head(statements)), LAMBDA r :
             IF ~IsOk(r)
             THEN IF r.err \in {"panic", "diverge"} THEN r
                  ELSE [r EXCEPT !.s = leave([r.s EXCEPT !.environment = previous],
                                             s.environment, "error")]
             ELSE IF Pending(r.s)
             THEN Ok(leave([r.s EXCEPT !.environment = previous], s.environment, "return"),
                     Nothing)
             ELSE block_loop(r.s, Tail(statements), previous))

\* environment is None (a block: a new child of the current frame) or
\* Some(env) (a call: the frame Function::call built)
visit_block_stmt(s, statements, environment) ==
    IF Pending(s) THEN Ok(s, Nothing)
    ELSE Let(AllocEnv(s, IF IsSome(environment) THEN environment[1]
                         ELSE Environment_new(s.environment)),
             LAMBDA s1 :
                 block_loop(enter(Exec([s1 EXCEPT !.environment = Len(s1.envs)], "Block"),
                                  Len(s1.envs), s.environment),
                            statements, s.environment))

visit_if_stmt(s, condition, then_branch, else_branch) ==
    IF Pending(s) THEN Ok(s, Nothing)
    ELSE Try(visit_expr(Exec(s, "If"), condition), LAMBDA r :
             IF is_truthy(r.v) THEN visit_stmt(r.s, then_branch)
             ELSE IF IsSome(else_branch) THEN visit_stmt(r.s, else_branch[1])
             ELSE Ok(r.s, Nothing))

\* the while loop of visit_while_stmt; result is the last value of the
\* condition and n the number of iterations done
while_loop(s, result, condition, body, n) ==
    IF ~is_truthy(result) THEN Ok(s, Nothing)
    ELSE IF n >= MaxLoop THEN Diverge(s)
    ELSE Try(visit_stmt(Log(s, [ev |-> "iterate", depth |-> s.depth]), body), LAMBDA b :
             IF Pending(b.s) THEN Ok(b.s, Nothing)
             ELSE Try(visit_expr(b.s, condition),
                      LAMBDA c : while_loop(c.s, c.v, condition, body, n + 1)))

visit_while_stmt(s, condition, body) ==
    Try(visit_expr(Exec(s, "While"), condition),
        LAMBDA r : while_loop(r.s, r.v, condition, body, 0))

visit_function_stmt(s, name, params, body) ==
    Ok(define(Log(Exec(s, "Function"),
                  [ev |-> "fun_new", body |-> body, env |-> s.environment]),
              s.environment, name.lexeme,
              LitFun(Function_new(Some(name), params, body, s.environment, FALSE))),
       Nothing)

visit_return_stmt(s, keyword, value) ==
    IF s.in_initializer
    THEN Let(get_at(s, s.environment, "this", 0), LAMBDA this :
         Let(IF this.found THEN this.v ELSE Nothing, LAMBDA rv :
             Ok(Log([Exec(s, "Return") EXCEPT !.return_value = rv],
                    [ev |-> "return", depth |-> s.depth, value |-> rv]), Nothing)))
    ELSE Try(IF IsNilLiteral(value) THEN Ok(Exec(s, "Return"), Nothing)
             ELSE visit_expr(Exec(s, "Return"), value),
             LAMBDA r : Ok(Log([r.s EXCEPT !.return_value = r.v],
                               [ev |-> "return", depth |-> s.depth, value |-> r.v]),
                           Nothing))

\* the method table visit_class_stmt builds: every method captures env
class_methods(methods, env, acc) ==
    IF methods = <<>> THEN acc
    ELSE LET stmt == Head(methods)
             function ==
                 IF stmt.k = "Function"
                 THEN LitFun(Function_new(Some(stmt.name), stmt.params, stmt.body, env,
                                          stmt.name.lexeme = "init"))
                 ELSE LitGet(Function_new(Some(stmt.name), <<>>, stmt.body, env, FALSE))
         IN  class_methods(Tail(methods), env,
                           IF stmt.k \in {"Function", "Getter"}
                           THEN MapPut(acc, stmt.name.lexeme, function) ELSE acc)

\* the end of visit_class_stmt: s3 is the state with super defined (if any);
\* the class is built, the frame of super is left and the name is assigned
class_finish(s3, name, methods, super_class, parent_class) ==
    Let(IF IsSome(super_class)
        THEN [s3 EXCEPT !.environment =
                 IF s3.envs[s3.environment].outer_scope # 0
                 THEN s3.envs[s3.environment].outer_scope ELSE Globals]
        ELSE s3,
        LAMBDA s4 :
            assign(s4, s4.environment, name,
                   LitClass(Class_new(name.lexeme,
                                      class_methods(methods, s3.environment, EmptyMap),
                                      parent_class))))

visit_class_stmt(s, name, methods, super_class) ==
    Try(IF IsSome(super_class) THEN visit_expr(Exec(s, "Class"), super_class[1])
        ELSE Ok(Exec(s, "Class"), Nothing),
        LAMBDA p :
        IF IsSome(super_class) /\ p.v.t # "Class"
        THEN Err(p.s, name, "Superclass must be a class.")
        ELSE
        Let(define(p.s, p.s.environment, name.lexeme, Nothing), LAMBDA s1 :
        \* the frame that defines super
        Let(IF IsSome(super_class)
            THEN [AllocEnv(s1, Environment_new(s1.environment))
                      EXCEPT !.environment = Len(s1.envs) + 1]
            ELSE s1,
            LAMBDA s2 :
        Try(IF IsSome(super_class) THEN visit_expr(s2, super_class[1]) ELSE Ok(s2, Nothing),
            LAMBDA q :
            class_finish(IF IsSome(super_class)
                         THEN define(q.s, q.s.environment, "super", q.v) ELSE q.s,
                         name, methods, super_class,
                         IF IsSome(super_class) THEN Some(p.v.c) ELSE None)))))

visit_stmt(s, stmt) ==
    CASE stmt.k = "Expression" -> visit_expression_stmt(s, stmt.expr)
      [] stmt.k = "Print" -> visit_print_stmt(s, stmt.expr)
      [] stmt.k = "Var" -> visit_var_stmt(s, stmt.name, stmt.initializer)
      [] stmt.k = "Block" -> visit_block_stmt(s, stmt.statements, None)
      [] stmt.k = "If" ->
            visit_if_stmt(s, stmt.condition, stmt.then_branch, stmt.else_branch)
      [] stmt.k = "While" -> visit_while_stmt(s, stmt.condition, stmt.loop)
      [] stmt.k = "Function" -> visit_function_stmt(s, stmt.name, stmt.params, stmt.body)
      [] stmt.k = "Getter" -> Err(s, stmt.name, "getter require a class.")
      [] stmt.k = "Return" -> visit_return_stmt(s, stmt.keyword, stmt.value)
      [] stmt.k = "Class" ->
            visit_class_stmt(s, stmt.name, stmt.methods, stmt.super_class)

\* ---------------------------------------------------------------- expressions
visit_assign_expr(s, name, initializer) ==
    Try(visit_expr(s, initializer), LAMBDA r :
        IF name \in DOMAIN r.s.locals
        THEN Try(assign_at(r.s, r.s.environment, name, r.v, r.s.locals[name]), LAMBDA a :
                 Ok(Log(a.s, [ev |-> "assign_local", seq |-> name.seq,
                              d |-> r.s.locals[name], value |-> r.v,
                              after |-> get_at(a.s, a.s.environment, name.lexeme,
                                               r.s.locals[name])]),
                    r.v))
        ELSE Try(assign(r.s, Globals, name, r.v), LAMBDA a : Ok(a.s, r.v)))

\* the number of frames from e out to the globals, the globals not counted
RECURSIVE frames(_, _)
frames(s, e) == IF e = Globals \/ e = 0 THEN 0 ELSE 1 + frames(s, s.envs[e].outer_scope)

visit_var_expr(s, name) ==
    Let(IF name \in DOMAIN s.locals
        THEN get_at(s, s.environment, name.lexeme, s.locals[name])
        ELSE get(s, Globals, name.lexeme),
        LAMBDA value :
        Let(IF name \in DOMAIN s.locals
            THEN Log(s, [ev |-> "read_local", seq |-> name.seq, d |-> s.locals[name],
                         found |-> value.found, frames |-> frames(s, s.environment)])
            ELSE s,
            LAMBDA s1 :
            IF value.found THEN Ok(s1, value.v) ELSE Err(s1, name, "Undefined variable")))

\* == and !=: the comparison is recorded with its outcome
equality(s, l, operator, r) ==
    Let(is_equal(s, l, r), LAMBDA e :
    Let(Log(s, [ev |-> "eq", seq |-> operator.seq, l |-> l, r |-> r, result |-> e]),
        LAMBDA s1 :
            IF e = "O" THEN Panic(s1)
            ELSE Ok(s1, LitBool(IF operator.typ = "EqualEqual" THEN e = "T" ELSE e # "T"))))

visit_binary_expr(s, left, operator, right) ==
    Try(visit_expr(s, left), LAMBDA l :
    Try(visit_expr(l.s, right), LAMBDA r :
        CASE operator.typ \in {"Minus", "Slash", "Star"} ->
                calculate_number(r.s, l.v, operator, r.v)
          [] operator.typ = "Plus" -> calculate_addition(r.s, l.v, operator, r.v)
          [] operator.typ \in {"Greater", "GreaterEqual", "Less", "LessEqual"} ->
                calculate_bool(r.s, l.v, operator, r.v)
          [] operator.typ \in {"BangEqual", "EqualEqual"} -> equality(r.s, l.v, operator, r.v)
          [] operator.typ = "Comma" -> Ok(r.s, r.v)
          [] OTHER -> Err(r.s, operator, "Unknown binary operator.")))

\* visit_logical_expr that evaluates both operands before it decides
visit_logical_expr_eager(s, left, operator, right) ==
    Try(visit_expr(s, left), LAMBDA l :
    Let(Log(l.s, [ev |-> "decide", typ |-> operator.typ, left |-> l.v,
                  middle |-> {}, right |-> ExprToks(right), depth |-> s.depth]),
        LAMBDA s1 :
    Try(visit_expr(s1, right), LAMBDA r :
        IF (operator.typ = "Or") = is_truthy(l.v)
        THEN Ok(Log(r.s, [ev |-> "decided", at |-> Len(s1.trace), value |-> l.v]), l.v)
        ELSE Ok(Log(r.s, [ev |-> "decided", at |-> Len(s1.trace), value |-> r.v,
                          operand |-> r.v]), r.v))))

\* "decide" is recorded when the left operand has its value, "decided" when
\* the expression has its own; right and middle are the tokens of the operands
visit_logical_expr(s, left, operator, right) ==
    Try(visit_expr(s, left), LAMBDA l :
    Let(Log(l.s, [ev |-> "decide", typ |-> operator.typ, left |-> l.v,
                  middle |-> {}, right |-> ExprToks(right), depth |-> s.depth]),
        LAMBDA s1 :
        IF operator.typ = "Or" /\ is_truthy(l.v)
        THEN Ok(Log(s1, [ev |-> "decided", at |-> Len(s1.trace), value |-> l.v]), l.v)
        ELSE IF operator.typ # "Or" /\ ~is_truthy(l.v)
        THEN Ok(Log(s1, [ev |-> "decided", at |-> Len(s1.trace), value |-> l.v]), l.v)
        ELSE Try(visit_expr(s1, right), LAMBDA r :
                 Ok(Log(r.s, [ev |-> "decided", at |-> Len(s1.trace), value |-> r.v,
                              operand |-> r.v]), r.v))))

visit_ternary_expr(s, left, middle, right) ==
    Try(visit_expr(s, left), LAMBDA l :
    Let(Log(l.s, [ev |-> "decide", typ |-> "Ternary", left |-> l.v,
                  middle |-> ExprToks(middle), right |-> ExprToks(right),
                  depth |-> s.depth]),
        LAMBDA s1 :
    Try(IF is_truthy(l.v) THEN visit_expr(s1, middle) ELSE visit_expr(s1, right),
        LAMBDA r : Ok(Log(r.s, [ev |-> "decided", at |-> Len(s1.trace), value |-> r.v,
                                operand |-> r.v]), r.v))))

visit_grouping_expr(s, group) == visit_expr(s, group)

visit_unary_expr(s, operator, expr) ==
    Try(visit_expr(s, expr), LAMBDA r :
        CASE operator.typ = "Minus" ->
                IF r.v.t = "Number" THEN Ok(r.s, LitNumber(0 - r.v.n))
                ELSE Err(r.s, operator, "Cannot make non-number negative.")
          [] operator.typ = "Bang" -> Ok(r.s, LitBool(~is_truthy(r.v)))
          [] OTHER -> Err(r.s, operator, "Uknown unary operator."))

eval_args(s, arguments, evaluated_args) ==
    IF arguments = <<>> THEN Ok(s, evaluated_args)
    ELSE Try(visit_expr(s, Head(arguments)), LAMBDA r :
             eval_args(r.s, Tail(arguments), Append(evaluated_args, r.v)))

\* env.define(params[i], args[i]) for i in 0..arity
BindParams(params, args) ==
    [x \in {params[i].lexeme : i \in DOMAIN params} |->
        args[CHOOSE i \in DOMAIN params :
                /\ params[i].lexeme = x
                /\ \A j \in DOMAIN params : params[j].lexeme = x => j <= i]]

\* the body of f run in the frame env; "call" and "exit" are recorded around it
run_body(s, f, env) ==
    Try(visit_block_stmt(
            Log([s EXCEPT !.in_initializer = f.is_initializer, !.depth = @ + 1],
                [ev |-> "call", body |-> f.body, frame |-> Len(s.envs) + 1,
                 depth |-> s.depth + 1, init |-> f.is_initializer,
                 params |-> Len(f.params)]),
            f.body, Some(env)),
        LAMBDA r :
            Ok(Log([r.s EXCEPT !.in_initializer = s.in_initializer, !.depth = s.depth],
                   [ev |-> "exit", frame |-> Len(s.envs) + 1, depth |-> s.depth + 1]),
               Nothing))

\* Function_call with the frame parented on the caller's current frame
Function_call_dynamic(s, f, args) ==
    IF Len(args) < f.arity THEN Panic(s)
    ELSE run_body(s, f, [Environment_new(s.environment) EXCEPT
                             !.values = BindParams(f.params, args)])

\* args[i] with i past the end of args is an index out of bounds: a panic
Function_call(s, f, args) ==
    IF Len(args) < f.arity THEN Panic(s)
    ELSE Try(run_body(s, f, [Environment_new(f.closure) EXCEPT
                                 !.values = BindParams(f.params, args)]),
             LAMBDA r :
             Let(get_at(r.s, f.closure, "this", 0), LAMBDA this :
                 IF f.is_initializer /\ this.found THEN Ok(r.s, this.v)
                 ELSE Ok(r.s, Nothing)))

\* the class has a method named init
HasInit(class) ==
    Let(find_method(class, "init"), LAMBDA m : IsSome(m) /\ m[1].t = "Fun")

\* Class_call whose value is what a function call would yield
Class_call_as_function(s, class, args) ==
    Let(Log(AllocObj(s, Object_new(class)), [ev |-> "new_object", ref |-> Len(s.objs) + 1]),
        LAMBDA s2 :
        IF HasInit(class)
        THEN Try(bind(s2, find_method(class, "init")[1].f, Dynamic(Len(s2.objs)), FALSE),
                 LAMBDA bound_init :
             Try(Function_call(bound_init.s, bound_init.v.f, args),
                 LAMBDA r : Ok(r.s, r.s.return_value)))
        ELSE Ok(s2, LitInstance(Dynamic(Len(s2.objs)))))

\* wrapped_instance is the new cell, Len(s2.objs); the result of init is dropped
Class_call(s, class, args) ==
    Let(Log(AllocObj(s, Object_new(class)), [ev |-> "new_object", ref |-> Len(s.objs) + 1]),
        LAMBDA s2 :
        IF HasInit(class)
        THEN Try(bind(s2, find_method(class, "init")[1].f, Dynamic(Len(s2.objs)), FALSE),
                 LAMBDA bound_init :
             Try(Function_call(bound_init.s, bound_init.v.f, args),
                 LAMBDA r : Ok(r.s, LitInstance(Dynamic(Len(s2.objs))))))
        ELSE Ok(s2, LitInstance(Dynamic(Len(s2.objs)))))

\* the state when the callee c and the arguments a have their values, with the
\* "apply" record of it
applying(c, a, callee, right_paren, arguments) ==
    Log(a.s, [ev |-> "apply", seq |-> right_paren.seq, callee |-> c.v.t,
              nargs |-> Len(arguments),
              arity |-> IF c.v.t = "Fun" THEN c.v.f.arity ELSE 0,
              evaluated |-> Len(a.v), envs |-> Len(a.s.envs),
              heads |-> {RootTok(callee)} \cup
                        {RootTok(arguments[i]) : i \in DOMAIN arguments},
              objs |-> Len(a.s.objs),
              init |-> c.v.t = "Class" /\ HasInit(c.v.c),
              flag |-> a.s.in_initializer])

\* the value of the call expression, with the "called" record of it
called(s, at, value) ==
    Ok(Log(s, [ev |-> "called", at |-> at, value |-> value, flag |-> s.in_initializer]),
       value)

\* visit_call_expr that lets a call with more arguments than parameters through
visit_call_expr_lenient(s, callee, right_paren, arguments) ==
    Try(visit_expr(s, callee), LAMBDA c :
    Try(eval_args(c.s, arguments, <<>>), LAMBDA a :
    Let(applying(c, a, callee, right_paren, arguments), LAMBDA s1 :
        CASE c.v.t = "Fun" ->
                IF Len(arguments) < c.v.f.arity
                THEN Err(s1, right_paren, "Wrong number of arguments.")
                ELSE Try(Function_call(s1, c.v.f, a.v), LAMBDA r :
                         called([r.s EXCEPT !.return_value = Nothing], Len(s1.trace),
                                r.s.return_value))
          [] c.v.t = "Class" ->
                Try(Class_call(s1, c.v.c, a.v),
                    LAMBDA r : called(r.s, Len(s1.trace), r.v))
          [] OTHER -> Err(s1, right_paren, "Can only call functions and classes."))))

\* visit_call_expr that leaves the value of the call in return_value
visit_call_expr_keeping(s, callee, right_paren, arguments) ==
    Try(visit_expr(s, callee), LAMBDA c :
    Try(eval_args(c.s, arguments, <<>>), LAMBDA a :
    Let(applying(c, a, callee, right_paren, arguments), LAMBDA s1 :
        CASE c.v.t = "Fun" ->
                IF Len(arguments) # c.v.f.arity
                THEN Err(s1, right_paren, "Wrong number of arguments.")
                ELSE Try(Function_call(s1, c.v.f, a.v), LAMBDA r :
                         called(r.s, Len(s1.trace), r.s.return_value))
          [] c.v.t = "Class" ->
                Try(Class_call(s1, c.v.c, a.v),
                    LAMBDA r : called(r.s, Len(s1.trace), r.v))
          [] OTHER -> Err(s1, right_paren, "Can only call functions and classes."))))

\* "apply" is recorded when the callee and the arguments have their values,
\* "called" when the call expression has its own
visit_call_expr(s, callee, right_paren, arguments) ==
    Try(visit_expr(s, callee), LAMBDA c :
    Try(eval_args(c.s, arguments, <<>>), LAMBDA a :
    Let(applying(c, a, callee, right_paren, arguments), LAMBDA s1 :
        CASE c.v.t = "Fun" ->
                IF Len(arguments) # c.v.f.arity
                THEN Err(s1, right_paren, "Wrong number of arguments.")
                ELSE Try(Function_call(s1, c.v.f, a.v), LAMBDA r :
                         called([r.s EXCEPT !.return_value = Nothing], Len(s1.trace),
                                r.s.return_value))
          [] c.v.t = "Class" ->
                Try(Class_call(s1, c.v.c, a.v),
                    LAMBDA r : called(r.s, Len(s1.trace), r.v))
          [] OTHER -> Err(s1, right_paren, "Can only call functions and classes."))))

visit_lambda_expr(s, params, body) ==
    Ok(Log(s, [ev |-> "fun_new", body |-> body, env |-> s.environment]),
       LitFun(Function_new(None, params, body, s.environment, FALSE)))

\* what the name of a property of the object at ref stands for: a field, or
\* the entry of the method table of its class chain
member(s, ref, name) ==
    Let(find_method(s.objs[ref].class, name.lexeme), LAMBDA m :
        [ev |-> "get", seq |-> name.seq, receiver |-> ref,
         kind |-> IF MapHas(s.objs[ref].fields, name.lexeme) THEN "Field"
                  ELSE IF IsSome(m) THEN m[1].t ELSE "None",
         body |-> IF IsSome(m) THEN m[1].f.body ELSE <<>>])

visit_get_expr(s, expr, name) ==
    Try(visit_expr(s, expr), LAMBDA instance :
        IF instance.v.t = "Instance" /\ instance.v.i.k = "Dynamic"
        THEN Try(Object_get(Log(instance.s, member(instance.s, instance.v.i.ref, name)),
                            instance.v.i.ref, name),
                 LAMBDA result :
                 IF result.v.t = "Get"
                 THEN Try(Function_call(result.s, result.v.f, <<>>), LAMBDA r :
                          Ok(Log([r.s EXCEPT !.return_value = Nothing],
                                 [ev |-> "got", at |-> Len(instance.s.trace) + 1,
                                  value |-> r.s.return_value]),
                             r.s.return_value))
                 ELSE result)
        ELSE IF instance.v.t = "Class" THEN Class_get(instance.s, instance.v.c, name)
        ELSE Err(instance.s, name, "Only instances have properties."))

visit_set_expr(s, left, name, right) ==
    Try(visit_expr(s, left), LAMBDA instance :
        IF instance.v.t = "Instance" /\ instance.v.i.k = "Dynamic"
        THEN Try(visit_expr(instance.s, right), LAMBDA value :
             Try(Object_set(value.s, instance.v.i.ref, name, value.v), LAMBDA r :
                 Ok(Log(r.s, [ev |-> "set", ref |-> instance.v.i.ref,
                              field |-> name.lexeme, value |-> value.v]), r.v)))
        ELSE Err(instance.s, name, "Only instances have properties."))

visit_this_expr(s, name) ==
    Let(IF name \in DOMAIN s.locals
        THEN get_at(s, s.environment, name.lexeme, s.locals[name])
        ELSE get(s, Globals, name.lexeme),
        LAMBDA value :
            IF value.found THEN Ok(s, value.v) ELSE Err(s, name, "Undefined variable"))

\* d - 1 on a usize: at d = 0 the subtraction overflows, a panic
visit_super_expr(s, keyword, method) ==
    IF keyword \in DOMAIN s.locals
    THEN IF s.locals[keyword] = 0 THEN Panic(s)
         ELSE Let(get_at(s, s.environment, "super", s.locals[keyword]), LAMBDA super_class :
              Let(get_at(s, s.environment, "this", s.locals[keyword] - 1), LAMBDA object :
              Let(IF super_class.found /\ super_class.v.t = "Class"
                  THEN find_method(super_class.v.c, method.lexeme) ELSE None,
                  LAMBDA m :
              Let(Log(s, [ev |-> "super", seq |-> keyword.seq, d |-> s.locals[keyword],
                          super |-> IF super_class.found THEN super_class.v ELSE Nothing,
                          this |-> IF object.found THEN object.v ELSE Nothing]),
                  LAMBDA s1 :
                  IF /\ super_class.found /\ super_class.v.t = "Class"
                     /\ object.found /\ object.v.t = "Instance"
                     /\ IsSome(m) /\ m[1].t = "Fun"
                  THEN bind(s1, m[1].f, object.v.i, FALSE)
                  ELSE Err(s1, method, "Undefined property")))))
    ELSE Err(s, method, "Undefined property")

visit_literal(s, value) == Ok(s, value)

visit_expr(s, expr) ==
    CASE expr.k = "Assign" -> visit_assign_expr(Eval(s, expr.name), expr.name, expr.value)
      [] expr.k = "Variable" -> visit_var_expr(Eval(s, expr.name), expr.name)
      [] expr.k = "Binary" ->
            visit_binary_expr(Eval(s, expr.operator), expr.left, expr.operator, expr.right)
      [] expr.k = "Logical" ->
            visit_logical_expr(Eval(s, expr.operator), expr.left, expr.operator, expr.right)
      [] expr.k = "Ternary" -> visit_ternary_expr(s, expr.left, expr.middle, expr.right)
      [] expr.k = "Grouping" -> visit_grouping_expr(s, expr.group)
      [] expr.k = "Unary" -> visit_unary_expr(Eval(s, expr.operator), expr.operator, expr.right)
      [] expr.k = "Call" ->
            visit_call_expr(Eval(s, expr.right_paren), expr.callee, expr.right_paren,
                            expr.arguments)
      [] expr.k = "Lambda" -> visit_lambda_expr(s, expr.params, expr.body)
      [] expr.k = "Get" -> visit_get_expr(Eval(s, expr.name), expr.object, expr.name)
      [] expr.k = "Set" ->
            visit_set_expr(Eval(s, expr.name), expr.object, expr.name, expr.value)
      [] expr.k = "This" -> visit_this_expr(Eval(s, expr.name), expr.name)
      [] expr.k = "Super" -> visit_super_expr(Eval(s, expr.keyword), expr.keyword, expr.method)
      [] expr.k = "Literal" -> visit_literal(s, expr.value)

\* ---------------------------------------------------------------- Resolver
\* The resolver state rs; a result is [rs, err] with err = "" for Ok(()).
\* uses is history only: one record per resolve_local call, with the scope
\* stack the call saw.  skipped is history too: one record per member the
\* method loop of visit_class_stmt passes over, with the scope stack there.
Resolver_new ==
    [scopes |-> <<>>, locals |-> EmptyMap, current_function |-> "NotAFunction",
     current_class |-> "NotAClass", uses |-> <<>>, skipped |-> <<>>]

ROk(rs) == [rs |-> rs, err |-> ""]
RErr(rs, message) == [rs |-> rs, err |-> message]

declare(rs, name) ==
    IF rs.scopes = <<>> THEN ROk(rs)
    ELSE IF MapHas(rs.scopes[Len(rs.scopes)], name.lexeme)
    THEN RErr(rs, "Variable with this name already declared in this scope.")
    ELSE ROk([rs EXCEPT !.scopes[Len(rs.scopes)] = MapPut(@, name.lexeme, FALSE)])

r_define(rs, name) ==
    IF rs.scopes = <<>> THEN rs
    ELSE [rs EXCEPT !.scopes[Len(rs.scopes)] = MapPut(@, name.lexeme, TRUE)]

begin_scope(rs) == [rs EXCEPT !.scopes = Append(@, EmptyMap)]
end_scope(rs) == [rs EXCEPT !.scopes = SubSeq(@, 1, Len(@) - 1)]
\* scope.insert(name, true) on the innermost scope
scope_insert(rs, lexeme) == [rs EXCEPT !.scopes[Len(rs.scopes)] = MapPut(@, lexeme, TRUE)]

\* for i in (0..=scopes_depth()).rev(): the loop has no break, it visits every
\* scope from the innermost (i = Len) to the outermost (i = 1) and inserts at
\* each one that contains the name
RECURSIVE resolve_local_loop(_, _, _)
resolve_local_loop(rs, name, i) ==
    IF i = 0 THEN rs
    ELSE resolve_local_loop(
            IF MapHas(rs.scopes[i], name.lexeme)
            THEN [rs EXCEPT !.locals = MapPut(@, name, Len(rs.scopes) - i)]
            ELSE rs,
            name, i - 1)

resolve_local(rs, name) ==
    LET rs1 == [rs EXCEPT !.uses = Append(@, [name |-> name, scopes |-> rs.scopes])]
    IN  IF Len(rs.scopes) > 0 THEN resolve_local_loop(rs1, name, Len(rs.scopes)) ELSE rs1

RECURSIVE r_visit_stmt(_, _), r_visit_expr(_, _), resolve(_, _), r_visit_exprs(_, _),
          resolve_methods(_, _, _), declare_params(_, _)

resolve(rs, statements) ==
    IF statements = <<>> THEN ROk(rs)
    ELSE Try(r_visit_stmt(rs, Head(statements)), LAMBDA r : resolve(r.rs, Tail(statements)))

r_visit_exprs(rs, exprs) ==
    IF exprs = <<>> THEN ROk(rs)
    ELSE Try(r_visit_expr(rs, Head(exprs)), LAMBDA r : r_visit_exprs(r.rs, Tail(exprs)))

declare_params(rs, params) ==
    IF params = <<>> THEN ROk(rs)
    ELSE Try(declare(rs, Head(params)),
             LAMBDA r : declare_params(r_define(r.rs, Head(params)), Tail(params)))

resolve_function(rs, params, body, typ) ==
    Try(declare_params(begin_scope([rs EXCEPT !.current_function = typ]), params), LAMBDA p :
    Try(resolve(p.rs, body), LAMBDA r :
        ROk([end_scope(r.rs) EXCEPT !.current_function = rs.current_function])))

r_visit_block_stmt(rs, statements) ==
    Try(resolve(begin_scope(rs), statements), LAMBDA r : ROk(end_scope(r.rs)))

r_visit_var_stmt(rs, name, initializer) ==
    Try(declare(rs, name), LAMBDA d :
    Try(IF IsNilLiteral(initializer) THEN ROk(d.rs) ELSE r_visit_expr(d.rs, initializer),
        LAMBDA r : ROk(r_define(r.rs, name))))

r_visit_if_stmt(rs, condition, then_branch, else_branch) ==
    Try(r_visit_expr(rs, condition), LAMBDA c :
    Try(r_visit_stmt(c.rs, then_branch), LAMBDA th :
        IF IsSome(else_branch) THEN r_visit_stmt(th.rs, else_branch[1]) ELSE th))

r_visit_return_stmt(rs, keyword, value) ==
    IF rs.current_function = "NotAFunction"
    THEN RErr(rs, "Cannot return from top-level code.")
    ELSE IF rs.current_function = "Initializer"
    THEN RErr(rs, "Cannot return a value from an initializer.")
    ELSE IF IsNilLiteral(value) THEN ROk(rs)
    ELSE r_visit_expr(rs, value)

r_visit_while_stmt(rs, condition, body) ==
    Try(r_visit_expr(rs, condition), LAMBDA c : r_visit_stmt(c.rs, body))

r_visit_function_stmt(rs, name, params, body) ==
    Try(declare(rs, name),
        LAMBDA d : resolve_function(r_define(d.rs, name), params, body, "Function"))

r_visit_getter_stmt(rs, name, body) ==
    Try(declare(rs, name),
        LAMBDA d : resolve_function(r_define(d.rs, name), <<>>, body, "Method"))

\* the method loop of visit_class_stmt: name is the name of the class
resolve_methods(rs, methods, name) ==
    IF methods = <<>> THEN ROk(rs)
    ELSE Try(IF Head(methods).k = "Function"
             THEN resolve_function(rs, Head(methods).params, Head(methods).body,
                                   IF name.lexeme = "init" THEN "Initializer" ELSE "Method")
             ELSE ROk([rs EXCEPT !.skipped = Append(@, [body |-> Head(methods).body,
                                                        scopes |-> rs.scopes])]),
             LAMBDA r : resolve_methods(r.rs, Tail(methods), name))

\* the scopes of super (if any) and this around the methods of the class
class_scopes(rs, methods, name, super_class) ==
    Try(resolve_methods(
            scope_insert(begin_scope(IF IsSome(super_class)
                                     THEN scope_insert(begin_scope(rs), "super") ELSE rs),
                         "this"),
            methods, name),
        LAMBDA m : ROk(IF IsSome(super_class) THEN end_scope(end_scope(m.rs))
                       ELSE end_scope(m.rs)))

r_visit_class_stmt(rs, name, methods, super_class) ==
    Try(declare([rs EXCEPT !.current_class = "Class"], name), LAMBDA d :
        IF /\ IsSome(super_class) /\ super_class[1].k = "Variable"
           /\ super_class[1].name.lexeme = name.lexeme
        THEN RErr(r_define(d.rs, name), "A class can't inherit from itself.")
        ELSE
        Try(IF IsSome(super_class)
            THEN r_visit_expr([r_define(d.rs, name) EXCEPT !.current_class = "SubClass"],
                              super_class[1])
            ELSE ROk(r_define(d.rs, name)),
            LAMBDA sup :
        Try(class_scopes(sup.rs, methods, name, super_class),
            LAMBDA m : ROk([m.rs EXCEPT !.current_class = rs.current_class]))))

r_visit_stmt(rs, statement) ==
    CASE statement.k = "Block" -> r_visit_block_stmt(rs, statement.statements)
      [] statement.k = "Var" -> r_visit_var_stmt(rs, statement.name, statement.initializer)
      [] statement.k = "Expression" -> r_visit_expr(rs, statement.expr)
      [] statement.k = "If" ->
            r_visit_if_stmt(rs, statement.condition, statement.then_branch,
                            statement.else_branch)
      [] statement.k = "Print" -> r_visit_expr(rs, statement.expr)
      [] statement.k = "Return" -> r_visit_return_stmt(rs, statement.keyword, statement.value)
      [] statement.k = "While" -> r_visit_while_stmt(rs, statement.condition, statement.loop)
      [] statement.k = "Function" ->
            r_visit_function_stmt(rs, statement.name, statement.params, statement.body)
      [] statement.k = "Getter" -> r_visit_getter_stmt(rs, statement.name, statement.body)
      [] statement.k = "Class" ->
            r_visit_class_stmt(rs, statement.name, statement.methods, statement.super_class)

r_visit_variable_expr(rs, name) ==
    IF /\ rs.scopes # <<>>
       /\ MapHas(rs.scopes[Len(rs.scopes)], name.lexeme)
       /\ rs.scopes[Len(rs.scopes)][name.lexeme] = FALSE
    THEN RErr(rs, "Cannot read local variable in its own initializer.")
    ELSE ROk(resolve_local(rs, name))

r_visit_lambda_expr(rs, params, body) ==
    Try(declare_params(begin_scope(rs), params), LAMBDA p :
    Try(resolve(p.rs, body), LAMBDA r : ROk(end_scope(r.rs))))

r_visit_this_expr(rs, name) ==
    IF rs.current_class = "NotAClass"
    THEN RErr(rs, "Cannot use 'this' outside of a class.")
    ELSE ROk(resolve_local(rs, name))

r_visit_super_expr(rs, keyword) ==
    CASE rs.current_class = "Class" ->
            RErr(rs, "Can't use 'super' in a class with no superclass.")
      [] rs.current_class = "NotAClass" -> RErr(rs, "Can't use 'super' outside of a class.")
      [] rs.current_class = "SubClass" -> ROk(resolve_local(rs, keyword))

r_visit_expr(rs, expr) ==
    CASE expr.k = "Variable" -> r_visit_variable_expr(rs, expr.name)
      [] expr.k = "Assign" ->
            Try(r_visit_expr(rs, expr.value), LAMBDA r : ROk(resolve_local(r.rs, expr.name)))
      [] expr.k \in {"Binary", "Logical"} -> r_visit_exprs(rs, <<expr.left, expr.right>>)
      [] expr.k = "Ternary" -> r_visit_exprs(rs, <<expr.left, expr.middle, expr.right>>)
      [] expr.k = "Grouping" -> r_visit_expr(rs, expr.group)
      [] expr.k = "Unary" -> r_visit_expr(rs, expr.right)
      [] expr.k = "Call" -> r_visit_exprs(rs, <<expr.callee>> \o expr.arguments)
      [] expr.k = "Lambda" -> r_visit_lambda_expr(rs, expr.params, expr.body)
      [] expr.k = "Get" -> r_visit_expr(rs, expr.object)
      [] expr.k = "Set" -> r_visit_exprs(rs, <<expr.value, expr.object>>)
      [] expr.k = "This" -> r_visit_this_expr(rs, expr.name)
      [] expr.k = "Super" -> r_visit_super_expr(rs, expr.keyword)
      [] expr.k = "Literal" -> ROk(rs)

Resolver_run(program) == resolve(Resolver_new, program)

\* ---------------------------------------------------------------- Scanner
\* A source is a sequence of characters (strings of length one).  The lexeme
\* of a token is a string; the characters of the lexeme of a Str or Number
\* token are kept beside the tokens, in text, under the number of the token.
\* mode is history only: where the characters read so far stand with respect
\* to the comments of the source.
Letters ==
    {"a", "b", "c", "d", "e", "f", "g", "h", "i", "j", "k", "l", "m", "n", "o", "p", "q",
     "r", "s", "t", "u", "v", "w", "x", "y", "z", "A", "B", "C", "D", "E", "F", "G", "H",
     "I", "J", "K", "L", "M", "N", "O", "P", "Q", "R", "S", "T", "U", "V", "W", "X", "Y",
     "Z"}
valid_digit(c) == c \in {"0", "1", "2", "3", "4", "5", "6", "7", "8", "9", "."}
valid_identifier(c) == c \in Letters \cup {"_"}

\* The mode after a character, from the mode before it: "slash" is code after
\* a '/' that may open a comment, "line" and "block" are the inside of the two
\* kinds of comment, "star" is a block comment after a '*' that may close it,
\* "ended" is code right after the last character of a comment, "string" is
\* the inside of a string.
NextMode(m, c) ==
    CASE m \in {"code", "ended"} ->
            IF c = "/" THEN "slash" ELSE IF c = "\"" THEN "string" ELSE "code"
      [] m = "slash" -> IF c = "/" THEN "line" ELSE IF c = "*" THEN "block"
                        ELSE IF c = "\"" THEN "string" ELSE "code"
      [] m = "string" -> IF c = "\"" THEN "code" ELSE "string"
      [] m = "line" -> IF c = "\n" THEN "ended" ELSE "line"
      [] m = "block" -> IF c = "*" THEN "star" ELSE "block"
      [] m = "star" -> IF c = "/" THEN "ended" ELSE IF c = "*" THEN "star" ELSE "block"

Scanner_new ==
    [tokens |-> <<>>, current_token |-> "", chars |-> <<>>, current_kind |-> "Nothing",
     current_token_number |-> 0, line |-> 1, errors |-> <<>>, text |-> EmptyMap,
     mode |-> "code"]

\* an add_token that does not count the token
add_token_uncounted(sc, token_type) ==
    [sc EXCEPT !.tokens = Append(@, [typ |-> token_type, lexeme |-> sc.current_token,
                                     seq |-> sc.current_token_number]),
               !.text = IF token_type \in {"Str", "Number"}
                        THEN [x \in (DOMAIN @) \cup {sc.current_token_number} |->
                                 IF x = sc.current_token_number THEN sc.chars ELSE @[x]]
                        ELSE @,
               !.current_token = "", !.chars = <<>>, !.current_kind = "Nothing"]

add_token(sc, token_type) ==
    [sc EXCEPT !.tokens = Append(@, Tok(token_type, sc.current_token,
                                        sc.current_token_number)),
               !.text = IF token_type \in {"Str", "Number"}
                        THEN MapPut(@, sc.current_token_number, sc.chars) ELSE @,
               !.current_token = "", !.chars = <<>>, !.current_kind = "Nothing",
               !.current_token_number = @ + 1]

sc_advance(sc, c) == [sc EXCEPT !.current_token = @ \o c, !.chars = Append(@, c)]

identifier_type(sc) ==
    CASE sc.current_token = "and" -> "And" [] sc.current_token = "class" -> "Class"
      [] sc.current_token = "else" -> "Else" [] sc.current_token = "false" -> "False"
      [] sc.current_token = "for" -> "For" [] sc.current_token = "fun" -> "Fun"
      [] sc.current_token = "if" -> "If" [] sc.current_token = "nil" -> "Nil"
      [] sc.current_token = "or" -> "Or" [] sc.current_token = "print" -> "Print"
      [] sc.current_token = "return" -> "Return" [] sc.current_token = "super" -> "Super"
      [] sc.current_token = "this" -> "This" [] sc.current_token = "true" -> "True"
      [] sc.current_token = "var" -> "Var" [] sc.current_token = "while" -> "While"
      [] OTHER -> "Identifier"

add_error(sc, line, message) ==
    [sc EXCEPT !.errors = Append(@, [line |-> line, message |-> message])]

add_comment(sc) ==
    [sc EXCEPT !.current_kind = IF sc.current_token = "//" THEN "Comment"
                                ELSE "MultiComment",
               !.current_token = "", !.chars = <<>>]

end_comment(sc) == [sc EXCEPT !.current_kind = "Nothing", !.current_token = "", !.chars = <<>>]

\* the second match of add_saved_token, on the text saved so far
saved_operator(sc, c) ==
    CASE sc.current_token = "/" /\ c # "/" /\ c # "*" -> add_token(sc, "Slash")
      [] sc.current_token = "*" /\ c # "/" /\ sc.current_kind # "MultiComment" ->
            add_token(sc, "Star")
      [] sc.current_token = "*" /\ c # "/" /\ sc.current_kind = "MultiComment" ->
            [sc EXCEPT !.current_token = "", !.chars = <<>>]
      [] sc.current_token = "=" /\ c # "=" -> add_token(sc, "Equal")
      [] sc.current_token = "!" /\ c # "=" -> add_token(sc, "Bang")
      [] sc.current_token = "<" /\ c # "=" -> add_token(sc, "Less")
      [] sc.current_token = ">" /\ c # "=" -> add_token(sc, "Greater")
      [] sc.current_token = "!=" -> add_token(sc, "BangEqual")
      [] sc.current_token = "==" -> add_token(sc, "EqualEqual")
      [] sc.current_token = "<=" -> add_token(sc, "LessEqual")
      [] sc.current_token = ">=" -> add_token(sc, "GreaterEqual")
      [] sc.current_token = "//" -> add_comment(sc)
      [] sc.current_token = "/*" -> add_comment(sc)
      [] sc.current_token = "*/" -> end_comment(sc)
      [] OTHER -> sc

add_saved_token(sc, c) ==
    CASE sc.current_kind = "Str" ->
            saved_operator(add_error(sc, sc.line, "Unterminated string"), c)
      [] sc.current_kind = "Number" -> saved_operator(add_token(sc, "Number"), c)
      [] sc.current_kind = "Identifier" ->
            saved_operator(add_token(sc, identifier_type(sc)), c)
      [] sc.current_kind = "Comment" -> sc
      [] sc.current_kind = "MultiComment" /\ sc.current_token # "*/" -> sc
      [] OTHER -> saved_operator(sc, c)

add_single_token(sc, token_type, c) ==
    add_token(sc_advance(add_saved_token(sc, c), c), token_type)

add_multi_token(sc, c) == sc_advance(add_saved_token(sc, c), c)

add_to_string(sc, c) ==
    IF sc.current_kind = "Nothing" THEN [sc EXCEPT !.current_kind = "Str"]
    ELSE IF c = "\"" THEN add_token(sc, "Str")
    ELSE sc_advance(sc, c)

add_to_number(sc, c) ==
    sc_advance(IF sc.current_kind = "Nothing" THEN [sc EXCEPT !.current_kind = "Number"]
               ELSE sc, c)

add_to_identifier(sc, c) ==
    sc_advance(IF sc.current_kind = "Nothing" THEN [sc EXCEPT !.current_kind = "Identifier"]
               ELSE sc, c)

new_line(sc) ==
    [sc EXCEPT !.line = @ + 1,
               !.current_kind = IF @ = "Comment" THEN "Nothing" ELSE @]

white_space(sc, c) == add_saved_token(IF c = "\n" THEN new_line(sc) ELSE sc, c)

multi_comment_end(sc, c) ==
    \/ sc.current_token = "*/"
    \/ sc.current_token = "*" /\ c = "/"
    \/ c = "*"

scan_token(sc, c) ==
    CASE sc.current_kind = "Comment" /\ c # "\n" -> sc
      [] sc.current_kind = "MultiComment" /\ ~multi_comment_end(sc, c) -> sc
      [] sc.current_kind = "Str" -> add_to_string(sc, c)
      [] sc.current_kind = "Number" /\ valid_digit(c) -> add_to_number(sc, c)
      [] sc.current_kind = "Identifier" /\ valid_identifier(c) -> add_to_identifier(sc, c)
      [] OTHER ->
            CASE c = "(" -> add_single_token(sc, "LeftParen", c)
              [] c = ")" -> add_single_token(sc, "RightParen", c)
              [] c = "{" -> add_single_token(sc, "LeftBrace", c)
              [] c = "}" -> add_single_token(sc, "RightBrace", c)
              [] c = "," -> add_single_token(sc, "Comma", c)
              [] c = "." -> add_single_token(sc, "Dot", c)
              [] c = "-" -> add_single_token(sc, "Minus", c)
              [] c = "+" -> add_single_token(sc, "Plus", c)
              [] c = ";" -> add_single_token(sc, "SemiColon", c)
              [] c = "?" -> add_single_token(sc, "QuestionMark", c)
              [] c = ":" -> add_single_token(sc, "Colon", c)
              [] c \in {"*", "!", "=", "<", ">", "/"} -> add_multi_token(sc, c)
              [] c \in {"\n", "\t", "\r", " "} -> white_space(sc, c)
              [] c = "\"" -> add_to_string(sc, c)
              [] c # "." /\ valid_digit(c) -> add_to_number(sc, c)
              [] valid_identifier(c) -> add_to_identifier(sc, c)
              [] OTHER -> add_error(sc, sc.line, "Unexpected character")

\* the end of scan_tokens, after the loop over the characters:
\* add_saved_token('\0') ("0x00" stands for that character, which is none of
\* the characters the scanner tests for), then the token Eof
scan_tokens(sc) ==
    Let(add_saved_token(sc, "0x00"), LAMBDA end :
        [end EXCEPT !.tokens = Append(@, Tok("Eof", "", end.current_token_number))])

\* ---------------------------------------------------------------- Parser
\* The parser state p: the tokens, the index current (from 0) and the error
\* list.  A parse result holds the state after it, err ("" when Ok) and v:
\* the node that was parsed, or the token the error is reported at.  syncs
\* counts the calls of synchronize and fors keeps, for each for statement
\* that was parsed, its increment clause and the body of its While.  iters
\* keeps, for every iteration of a loop over the tokens that went on, where
\* the cursor was before and after it.
Parser_new(tokens, is_repl, text) ==
    [tokens |-> tokens, current |-> 0, is_repl |-> is_repl, errors |-> <<>>,
     statements |-> <<>>, text |-> text, syncs |-> 0, fors |-> <<>>,
     stmt_pool |-> <<>>, expr_pool |-> <<>>, roots |-> <<>>, adds |-> <<>>,
     iters |-> <<>>]

\* a pool that puts the new node in front of the ones it holds
Pool_add_front(pool, obj) == [pool |-> <<obj>> \o pool, ref |-> 0]
\* Pool<T>(Vec<T>): a handle is the index (from 0) of a node in the vector
Pool_add(pool, obj) == [pool |-> Append(pool, obj), ref |-> Len(pool)]
Pool_get(pool, pool_ref) == pool[pool_ref + 1]

POk(p, v) == [p |-> p, err |-> "", v |-> v]
\* p at the end of an iteration of loop that began with the cursor at before
iterated(p, loop, before) ==
    [p EXCEPT !.iters = Append(@, [loop |-> loop, before |-> before, after |-> p.current])]
\* a result that is a node: v is the tree the resolver and the interpreter
\* walk, ref the handle the parser returns (for a list or an Option of nodes,
\* the list or the Option of the handles)
PRef(p, v, ref) == [p |-> p, err |-> "", v |-> v, ref |-> ref]
\* self.expr_pool.add(obj) and self.stmt_pool.add(obj): obj is the node as
\* it is stored, with handles for its children; adds keeps every call
expr_pool_add(p, tree, obj) ==
    Let(Pool_add(p.expr_pool, obj), LAMBDA a :
        PRef([p EXCEPT !.expr_pool = a.pool,
                       !.adds = Append(@, [pool |-> "expr", ref |-> a.ref, obj |-> obj])],
             tree, a.ref))
stmt_pool_add(p, tree, obj) ==
    Let(Pool_add(p.stmt_pool, obj), LAMBDA a :
        PRef([p EXCEPT !.stmt_pool = a.pool,
                       !.adds = Append(@, [pool |-> "stmt", ref |-> a.ref, obj |-> obj])],
             tree, a.ref))
peek(p) == p.tokens[p.current + 1]
previous(p) == p.tokens[p.current]
is_at_end(p) == peek(p).typ = "Eof"
check(p, token_type) == ~is_at_end(p) /\ peek(p).typ = token_type
advance(p) == IF ~is_at_end(p) THEN [p EXCEPT !.current = @ + 1] ELSE p
\* matches tells whether the next token is of one of the types; the caller
\* goes on from advance(p) when it is
matches(p, token_types) == \E token_type \in token_types : check(p, token_type)
parse_error(p, message) == [p |-> p, err |-> message, v |-> peek(p)]
consume(p, token_type, message) ==
    IF check(p, token_type) THEN POk(advance(p), peek(p)) ELSE parse_error(p, message)

\* lexeme.parse::<f64>(): the characters are digits with at most one '.';
\* numbers are integers here and the digits after the '.' are not used
RECURSIVE digits_value(_, _)
digits_value(chars, n) ==
    IF chars = <<>> \/ Head(chars) = "." THEN n
    ELSE digits_value(Tail(chars),
                      10 * n + (CHOOSE d \in 0..9 : Digit(d) = Head(chars)))
parse(chars) ==
    IF /\ \A i \in DOMAIN chars : valid_digit(chars[i])
       /\ Cardinality({i \in DOMAIN chars : chars[i] = "."}) <= 1
       /\ \E i \in DOMAIN chars : chars[i] # "."
    THEN [ok |-> TRUE, n |-> digits_value(chars, 0)]
    ELSE [ok |-> FALSE, n |-> 0]

\* rule(name, p) is the call self.<name>(): the calls that re-enter the
\* grammar (an operand after an operator, a nested expression or statement)
\* go through it
RECURSIVE rule(_, _)
RECURSIVE declaration(_), statement(_), block_statements(_), expression(_), assignment(_),
          unary(_), call_loop(_), arguments_loop(_), binary_loop(_, _, _), primary(_),
          function(_, _), methods_loop(_)

\* while self.matches(&[TokenType::Comma]) in function_arguments and lambda
RECURSIVE params_loop(_)
params_loop(params) ==
    IF matches(params.p, {"Comma"})
    THEN IF Len(params.v) > 254
         THEN parse_error(advance(params.p), "Cannot have more than 255 arguments.")
         ELSE Try(consume(advance(params.p), "Identifier", "Expect parameter name."),
                  LAMBDA name : params_loop(POk(name.p, Append(params.v, name.v))))
    ELSE params

function_arguments(p, params) ==
    IF ~check(p, "RightParen")
    THEN Try(consume(p, "Identifier", "Expect parameter name."),
             LAMBDA name : params_loop(POk(name.p, Append(params, name.v))))
    ELSE POk(p, params)

block(p) ==
    Try(block_statements(PRef(p, <<>>, <<>>)), LAMBDA statements :
    Try(consume(statements.p, "RightBrace", "Expect '}' after block."), LAMBDA brace :
        PRef(brace.p, statements.v, statements.ref)))

block_statements(statements) ==
    IF ~check(statements.p, "RightBrace") /\ ~is_at_end(statements.p)
    THEN Try(rule("declaration", statements.p), LAMBDA d :
             block_statements(PRef(iterated(d.p, "block", statements.p.current),
                                   Append(statements.v, d.v),
                                   Append(statements.ref, d.ref))))
    ELSE statements

lambda(p) ==
    Try(consume(p, "LeftParen", "Expect '(' after lambda declaration."), LAMBDA paren :
    Try(function_arguments(paren.p, <<>>), LAMBDA params :
    Try(consume(params.p, "RightParen", "Expect ')' after parameters"), LAMBDA right :
    Try(consume(right.p, "LeftBrace", "Expect '{' before lambda body."), LAMBDA brace :
    Try(rule("block", brace.p), LAMBDA body :
        expr_pool_add(body.p, ELambda(params.v, body.v), ELambda(params.v, body.ref)))))))

primary(p) ==
    CASE matches(p, {"False"}) ->
            expr_pool_add(advance(p), ELiteral(LitBool(FALSE)), ELiteral(LitBool(FALSE)))
      [] matches(p, {"True"}) ->
            expr_pool_add(advance(p), ELiteral(LitBool(TRUE)), ELiteral(LitBool(TRUE)))
      [] matches(p, {"Nil"}) ->
            expr_pool_add(advance(p), ELiteral(Nothing), ELiteral(Nothing))
      [] matches(p, {"Number"}) ->
            Let(parse(p.text[peek(p).seq]), LAMBDA num :
                IF num.ok
                THEN expr_pool_add(advance(p), ELiteral(LitNumber(num.n)),
                                   ELiteral(LitNumber(num.n)))
                ELSE [p |-> advance(p), err |-> "panic", v |-> peek(p)])
      [] matches(p, {"Str"}) ->
            expr_pool_add(advance(p), ELiteral(LitStr(p.text[peek(p).seq])),
                          ELiteral(LitStr(p.text[peek(p).seq])))
      [] matches(p, {"LeftParen"}) ->
            Try(rule("expression", advance(p)), LAMBDA expr :
            Try(consume(expr.p, "RightParen", "Expect ')' after expression."), LAMBDA paren :
                expr_pool_add(paren.p, EGrouping(expr.v), EGrouping(expr.ref))))
      [] matches(p, {"This"}) -> expr_pool_add(advance(p), EThis(peek(p)), EThis(peek(p)))
      [] matches(p, {"Identifier"}) ->
            expr_pool_add(advance(p), EVariable(peek(p)), EVariable(peek(p)))
      [] matches(p, {"Super"}) ->
            Try(consume(advance(p), "Dot", "Expect '.' after 'super'."), LAMBDA dot :
            Try(consume(dot.p, "Identifier", "Expect superclass method name."),
                LAMBDA method : expr_pool_add(method.p, ESuper(peek(p), method.v),
                                              ESuper(peek(p), method.v))))
      [] OTHER -> parse_error(p, "Expect expression.")

call_argument(p) == IF matches(p, {"Fun"}) THEN rule("lambda", advance(p)) ELSE rule("expression", p)

arguments_loop(arguments) ==
    IF matches(arguments.p, {"Comma"})
    THEN IF Len(arguments.v) >= 255
         THEN parse_error(advance(arguments.p), "Cannot have more than 255 arguments.")
         ELSE Try(call_argument(advance(arguments.p)), LAMBDA a :
                  arguments_loop(PRef(a.p, Append(arguments.v, a.v),
                                      Append(arguments.ref, a.ref))))
    ELSE arguments

finish_call(p, expr) ==
    Try(IF ~check(p, "RightParen")
        THEN Try(call_argument(p), LAMBDA a :
                 arguments_loop(PRef(a.p, <<a.v>>, <<a.ref>>)))
        ELSE PRef(p, <<>>, <<>>),
        LAMBDA arguments :
    Try(consume(arguments.p, "RightParen", "Expect ')' after arguments"), LAMBDA paren :
        expr_pool_add(paren.p, ECall(expr.v, paren.v, arguments.v),
                      ECall(expr.ref, paren.v, arguments.ref))))

call_loop(expr) ==
    IF matches(expr.p, {"LeftParen"})
    THEN Try(finish_call(advance(expr.p), expr), LAMBDA r : call_loop(r))
    ELSE IF matches(expr.p, {"Dot"})
    THEN Try(consume(advance(expr.p), "Identifier", "Expect property name after '.''."),
             LAMBDA name : call_loop(expr_pool_add(name.p, EGet(expr.v, name.v),
                                                   EGet(expr.ref, name.v))))
    ELSE expr

call(p) == Try(primary(p), LAMBDA expr : call_loop(expr))

unary(p) ==
    IF matches(p, {"Minus", "Bang"})
    THEN Try(rule("unary", advance(p)), LAMBDA right :
             expr_pool_add(right.p, EUnary(peek(p), right.v), EUnary(peek(p), right.ref)))
    ELSE call(p)

\* while self.matches(types) { operator = previous(); right = <the next
\* level>()?; expr = Binary or Logical(expr, operator, right) }: the loop of
\* comma, or, and, equality, comparison, addition and multiplication
multiplication(p) ==
    Try(unary(p), LAMBDA expr : binary_loop(expr, {"Slash", "Star"}, "multiplication"))
addition(p) ==
    Try(multiplication(p), LAMBDA expr : binary_loop(expr, {"Minus", "Plus"}, "addition"))
comparison(p) ==
    Try(addition(p), LAMBDA expr :
        binary_loop(expr, {"LessEqual", "Less", "GreaterEqual", "Greater"}, "comparison"))
p_equality(p) ==
    Try(comparison(p), LAMBDA expr :
        binary_loop(expr, {"EqualEqual", "BangEqual"}, "equality"))
ternary(p) ==
    Try(p_equality(p), LAMBDA expr :
        IF matches(expr.p, {"QuestionMark"})
        THEN Try(rule("expression", advance(expr.p)), LAMBDA middle :
             Try(consume(middle.p, "Colon", "Expect ':' in ternary expression."),
                 LAMBDA colon :
             Try(rule("expression", colon.p), LAMBDA right :
                 expr_pool_add(right.p, ETernary(expr.v, middle.v, right.v),
                               ETernary(expr.ref, middle.ref, right.ref)))))
        ELSE expr)
and(p) == Try(ternary(p), LAMBDA expr : binary_loop(expr, {"And"}, "and"))
or(p) == Try(and(p), LAMBDA expr : binary_loop(expr, {"Or"}, "or"))

binary_loop(expr, token_types, level) ==
    IF matches(expr.p, token_types)
    THEN Try(CASE level = "comma" -> rule("equality", advance(expr.p))
               [] level = "or" -> rule("and", advance(expr.p))
               [] level = "and" -> rule("ternary", advance(expr.p))
               [] level = "equality" -> rule("comparison", advance(expr.p))
               [] level = "comparison" -> rule("addition", advance(expr.p))
               [] level = "addition" -> rule("multiplication", advance(expr.p))
               [] level = "multiplication" -> rule("unary", advance(expr.p)),
             LAMBDA right :
                 binary_loop(IF level \in {"or", "and"}
                             THEN expr_pool_add(right.p,
                                      ELogical(expr.v, peek(expr.p), right.v),
                                      ELogical(expr.ref, peek(expr.p), right.ref))
                             ELSE expr_pool_add(right.p,
                                      EBinary(expr.v, peek(expr.p), right.v),
                                      EBinary(expr.ref, peek(expr.p), right.ref)),
                             token_types, level))
    ELSE expr

assignment(p) ==
    Try(or(p), LAMBDA expr :
        IF matches(expr.p, {"Equal"})
        THEN Try(rule("assignment", advance(expr.p)), LAMBDA value :
             Let(Pool_get(value.p.expr_pool, expr.ref), LAMBDA target :
                 CASE target.k = "Variable" ->
                         expr_pool_add(value.p, EAssign(target.name, value.v),
                                       EAssign(target.name, value.ref))
                   [] target.k = "Get" ->
                         expr_pool_add(value.p, ESet(expr.v.object, target.name, value.v),
                                       ESet(target.object, target.name, value.ref))
                   [] OTHER -> parse_error(value.p, "Invalid assignment target.")))
        ELSE expr)

comma(p) == Try(assignment(p), LAMBDA expr : binary_loop(expr, {"Comma"}, "comma"))

expression(p) == comma(p)

expression_statement(p) ==
    Try(rule("expression", p), LAMBDA value :
        IF p.is_repl THEN stmt_pool_add(value.p, SPrint(value.v), SPrint(value.ref))
        ELSE Try(consume(value.p, "SemiColon", "Expect ';' after value."), LAMBDA semi :
                 stmt_pool_add(semi.p, SExpression(value.v), SExpression(value.ref))))

\* keyword is previous(): the return token that was just matched
return_statement(p) ==
    Try(IF ~check(p, "SemiColon") THEN rule("expression", p)
        ELSE expr_pool_add(p, ELiteral(Nothing), ELiteral(Nothing)),
        LAMBDA value :
    Try(consume(value.p, "SemiColon", "Expect ';' after value."), LAMBDA semi :
        stmt_pool_add(semi.p, SReturn(previous(p), value.v),
                      SReturn(previous(p), value.ref))))

var_declaration(p) ==
    Try(consume(p, "Identifier", "Expect variable name."), LAMBDA name :
    Try(IF matches(name.p, {"Equal"}) THEN rule("expression", advance(name.p))
        ELSE expr_pool_add(name.p, ELiteral(Nothing), ELiteral(Nothing)),
        LAMBDA initializer :
    Try(consume(initializer.p, "SemiColon", "Expect ';' after value."), LAMBDA semi :
        stmt_pool_add(semi.p, SVar(name.v, initializer.v),
                      SVar(name.v, initializer.ref)))))

\* the three clauses of a for statement, each an Option
for_clauses(p) ==
    Try(consume(p, "LeftParen", "Expect '(' after 'for'."), LAMBDA paren :
    Try(IF matches(paren.p, {"SemiColon"}) THEN PRef(advance(paren.p), None, None)
        ELSE IF matches(paren.p, {"Var"})
        THEN Try(var_declaration(advance(paren.p)), LAMBDA stmt :
                 PRef(stmt.p, Some(stmt.v), Some(stmt.ref)))
        ELSE Try(expression_statement(paren.p), LAMBDA stmt :
                 PRef(stmt.p, Some(stmt.v), Some(stmt.ref))),
        LAMBDA initializer :
    Try(IF ~check(initializer.p, "SemiColon")
        THEN Try(rule("expression", initializer.p), LAMBDA expr :
                 PRef(expr.p, Some(expr.v), Some(expr.ref)))
        ELSE PRef(initializer.p, None, None),
        LAMBDA condition :
    Try(consume(condition.p, "SemiColon", "Expect ';' after loop condition."), LAMBDA semi :
    Try(IF ~check(semi.p, "RightParen")
        THEN Try(rule("expression", semi.p), LAMBDA expr :
                 PRef(expr.p, Some(expr.v), Some(expr.ref)))
        ELSE PRef(semi.p, None, None),
        LAMBDA increment :
    Try(consume(increment.p, "RightParen", "Expect ')' after for clauses."), LAMBDA right :
        PRef(right.p,
             [initializer |-> initializer.v, condition |-> condition.v,
              increment |-> increment.v],
             [initializer |-> initializer.ref, condition |-> condition.ref,
              increment |-> increment.ref])))))))

\* the increment is pushed onto the statements of a brace block; a body that
\* is any other statement is taken as it is
for_statement(p) ==
    Try(for_clauses(p), LAMBDA clauses :
    Try(IF matches(clauses.p, {"LeftBrace"})
        THEN Try(rule("block", advance(clauses.p)), LAMBDA b :
                 IF IsSome(clauses.v.increment)
                 THEN Let(stmt_pool_add(b.p, SExpression(clauses.v.increment[1]),
                                        SExpression(clauses.ref.increment[1])),
                          LAMBDA stmt :
                              stmt_pool_add(stmt.p, SBlock(Append(b.v, stmt.v)),
                                            SBlock(Append(b.ref, stmt.ref))))
                 ELSE stmt_pool_add(b.p, SBlock(b.v), SBlock(b.ref)))
        ELSE rule("statement", clauses.p),
        LAMBDA body :
        Let(IF IsSome(clauses.v.condition)
            THEN stmt_pool_add(body.p, SWhile(clauses.v.condition[1], body.v),
                               SWhile(clauses.ref.condition[1], body.ref))
            ELSE Let(expr_pool_add(body.p, ELiteral(LitBool(TRUE)), ELiteral(LitBool(TRUE))),
                     LAMBDA expr :
                         stmt_pool_add(expr.p, SWhile(expr.v, body.v),
                                       SWhile(expr.ref, body.ref))),
            LAMBDA while :
        Let([while.p EXCEPT !.fors = Append(@, [increment |-> clauses.v.increment,
                                                body |-> while.v.loop])],
            LAMBDA q :
                IF IsSome(clauses.v.initializer)
                THEN stmt_pool_add(q, SBlock(<<clauses.v.initializer[1], while.v>>),
                                   SBlock(<<clauses.ref.initializer[1], while.ref>>))
                ELSE PRef(q, while.v, while.ref)))))

while_statement(p) ==
    Try(consume(p, "LeftParen", "Expect '(' after 'while'."), LAMBDA paren :
    Try(rule("expression", paren.p), LAMBDA condition :
    Try(consume(condition.p, "RightParen", "Expect ')' after while condition."),
        LAMBDA right :
    Try(rule("statement", right.p), LAMBDA body :
        stmt_pool_add(body.p, SWhile(condition.v, body.v),
                      SWhile(condition.ref, body.ref))))))

if_statement(p) ==
    Try(consume(p, "LeftParen", "Expect '(' after 'if'."), LAMBDA paren :
    Try(rule("expression", paren.p), LAMBDA condition :
    Try(consume(condition.p, "RightParen", "Expect ')' after if condition."), LAMBDA right :
    Try(rule("statement", right.p), LAMBDA then_branch :
        IF matches(then_branch.p, {"Else"})
        THEN Try(rule("statement", advance(then_branch.p)), LAMBDA else_branch :
                 stmt_pool_add(else_branch.p,
                               SIf(condition.v, then_branch.v, Some(else_branch.v)),
                               SIf(condition.ref, then_branch.ref, Some(else_branch.ref))))
        ELSE stmt_pool_add(then_branch.p, SIf(condition.v, then_branch.v, None),
                           SIf(condition.ref, then_branch.ref, None))))))

print_statement(p) ==
    Try(rule("expression", p), LAMBDA value :
    Try(consume(value.p, "SemiColon", "Expect ';' after value."), LAMBDA semi :
        stmt_pool_add(semi.p, SPrint(value.v), SPrint(value.ref))))

statement(p) ==
    CASE matches(p, {"Print"}) -> print_statement(advance(p))
      [] matches(p, {"LeftBrace"}) ->
            Try(rule("block", advance(p)), LAMBDA b :
                stmt_pool_add(b.p, SBlock(b.v), SBlock(b.ref)))
      [] matches(p, {"If"}) -> if_statement(advance(p))
      [] matches(p, {"While"}) -> while_statement(advance(p))
      [] matches(p, {"For"}) -> for_statement(advance(p))
      [] matches(p, {"Return"}) -> return_statement(advance(p))
      [] OTHER -> expression_statement(p)

\* kind is "Function", "Static" or "Method"; a method without '(' is a getter
function(p, kind) ==
    Try(consume(p, "Identifier", "Expect " \o kind \o " name."), LAMBDA name :
    Try(IF kind \in {"Function", "Static"}
        THEN Try(consume(name.p, "LeftParen", "Expect '(' after " \o kind \o " name."),
                 LAMBDA paren :
             Try(function_arguments(paren.p, <<>>), LAMBDA params :
             Try(consume(params.p, "RightParen", "Expect ')' after parameters"),
                 LAMBDA right : POk(right.p, [kind |-> kind, params |-> params.v]))))
        ELSE IF matches(name.p, {"LeftParen"})
        THEN Try(function_arguments(advance(name.p), <<>>), LAMBDA params :
             Try(consume(params.p, "RightParen", "Expect ')' after parameters"),
                 LAMBDA right : POk(right.p, [kind |-> kind, params |-> params.v])))
        ELSE POk(name.p, [kind |-> "Getter", params |-> <<>>]),
        LAMBDA sig :
    Try(consume(sig.p, "LeftBrace", "Expect '{' before " \o sig.v.kind \o " body."),
        LAMBDA brace :
    Try(rule("block", brace.p), LAMBDA body :
        IF sig.v.kind = "Getter"
        THEN stmt_pool_add(body.p, SGetter(name.v, body.v), SGetter(name.v, body.ref))
        ELSE stmt_pool_add(body.p, SFunction(name.v, sig.v.params, body.v),
                           SFunction(name.v, sig.v.params, body.ref))))))

class_function(p) ==
    IF matches(p, {"Class"}) THEN function(advance(p), "Static") ELSE function(p, "Method")

methods_loop(methods) ==
    IF ~check(methods.p, "RightBrace") /\ ~is_at_end(methods.p)
    THEN Try(class_function(methods.p), LAMBDA m :
             methods_loop(PRef(iterated(m.p, "class", methods.p.current),
                               Append(methods.v, m.v), Append(methods.ref, m.ref))))
    ELSE methods

class_declaration(p) ==
    Try(consume(p, "Identifier", "Expect class name."), LAMBDA name :
    Try(IF matches(name.p, {"Less"})
        THEN Try(consume(advance(name.p), "Identifier", "Expect superclass name"),
                 LAMBDA super_class : POk(super_class.p, Some(EVariable(super_class.v))))
        ELSE POk(name.p, None),
        LAMBDA super_class :
    Try(consume(super_class.p, "LeftBrace", "Expect '{' before class body"), LAMBDA brace :
    Try(methods_loop(PRef(brace.p, <<>>, <<>>)), LAMBDA methods :
    Try(consume(methods.p, "RightBrace", "Expect '}' after class body"), LAMBDA right :
        Let(IF IsSome(super_class.v)
            THEN Let(expr_pool_add(right.p, super_class.v[1], super_class.v[1]),
                     LAMBDA class : PRef(class.p, Some(class.v), Some(class.ref)))
            ELSE PRef(right.p, None, None),
            LAMBDA expr :
                stmt_pool_add(expr.p, SClass(name.v, methods.v, expr.v),
                              SClass(name.v, methods.ref, expr.ref))))))))

declaration(p) ==
    CASE matches(p, {"Var"}) -> var_declaration(advance(p))
      [] matches(p, {"Class"}) -> class_declaration(advance(p))
      [] matches(p, {"Fun"}) -> function(advance(p), "Function")
      [] OTHER -> statement(p)

rule(name, p) ==
    CASE name = "declaration" -> declaration(p)
      [] name = "statement" -> statement(p)
      [] name = "block" -> block(p)
      [] name = "expression" -> expression(p)
      [] name = "assignment" -> assignment(p)
      [] name = "or" -> or(p)
      [] name = "and" -> and(p)
      [] name = "ternary" -> ternary(p)
      [] name = "equality" -> p_equality(p)
      [] name = "comparison" -> comparison(p)
      [] name = "addition" -> addition(p)
      [] name = "multiplication" -> multiplication(p)
      [] name = "unary" -> unary(p)
      [] name = "call" -> call(p)
      [] name = "primary" -> primary(p)
      [] name = "lambda" -> lambda(p)

\* the loop of synchronize, after the error was pushed and a token skipped
RECURSIVE skip(_)
skip(p) ==
    IF is_at_end(p) THEN p
    ELSE IF previous(p).typ = "SemiColon" THEN p
    ELSE IF peek(p).typ \in {"Class", "Fun", "Var", "For", "If", "While", "Print", "Return"}
    THEN p
    ELSE skip(iterated(advance(p), "synchronize", p.current))

\* err is error(token, message): the message and the token it is reported at
synchronize(p, err) ==
    skip(advance([p EXCEPT !.errors = Append(@, err), !.syncs = @ + 1]))

\* a loop of Parser::run that is left after its first iteration
run_loop_once(p) ==
    IF is_at_end(p) THEN POk(p, Nothing)
    ELSE Let(rule("declaration", p), LAMBDA r :
             IF IsOk(r) THEN POk(iterated([r.p EXCEPT !.statements = Append(@, r.v),
                                                      !.roots = Append(@, r.ref)],
                                          "run", p.current), Nothing)
             ELSE IF r.err = "panic" THEN r
             ELSE POk(iterated(synchronize(r.p, [message |-> r.err, seq |-> r.v.seq,
                                                 at |-> r.p.current]),
                               "run", p.current), Nothing))

\* the loop of Parser::run; an unwrap that fails ends the process
RECURSIVE run_loop(_)
run_loop(p) ==
    IF is_at_end(p) THEN POk(p, Nothing)
    ELSE Let(rule("declaration", p), LAMBDA r :
             IF IsOk(r) THEN run_loop(iterated([r.p EXCEPT !.statements = Append(@, r.v),
                                                           !.roots = Append(@, r.ref)],
                                               "run", p.current))
             ELSE IF r.err = "panic" THEN r
             ELSE run_loop(iterated(synchronize(r.p, [message |-> r.err, seq |-> r.v.seq,
                                                      at |-> r.p.current]),
                                    "run", p.current)))

\* Parser_run that hands over the statements it has whatever the errors
Parser_run_lenient(p) ==
    Let(run_loop(p), LAMBDA r :
        [panic |-> r.err = "panic", ok |-> TRUE, errors |-> r.p.errors,
         statements |-> r.p.statements, syncs |-> r.p.syncs, fors |-> r.p.fors,
         roots |-> r.p.roots, stmt_pool |-> r.p.stmt_pool, expr_pool |-> r.p.expr_pool,
         adds |-> r.p.adds, current |-> r.p.current, iters |-> r.p.iters])

\* Err(self.errors) when there are errors, else Ok(ParseOutput(statements, pools))
Parser_run(p) ==
    Let(run_loop(p), LAMBDA r :
        [panic |-> r.err = "panic", ok |-> r.err # "panic" /\ Len(r.p.errors) = 0,
         errors |-> r.p.errors,
         statements |-> IF Len(r.p.errors) > 0 \/ r.err = "panic" THEN <<>>
                        ELSE r.p.statements,
         syncs |-> r.p.syncs, fors |-> r.p.fors,
         roots |-> IF Len(r.p.errors) > 0 \/ r.err = "panic" THEN <<>> ELSE r.p.roots,
         stmt_pool |-> r.p.stmt_pool, expr_pool |-> r.p.expr_pool, adds |-> r.p.adds,
         current |-> r.p.current, iters |-> r.p.iters])

\* ---------------------------------------------------------------- programs
\* Short-hands for writing syntax trees.  Every token of a program has its own
\* sequence number: a statement at position p of a program numbers its tokens
\* from TokBase * p.
TokBase == 100
K(typ, lexeme, n) == Tok(typ, lexeme, n)
I(x, n) == Ident(x, n)
V(x, n) == EVariable(I(x, n))
Nm(v) == ELiteral(LitNumber(v))
Nil == ELiteral(Nothing)
Tru == ELiteral(LitBool(TRUE))
Bin(l, typ, lexeme, n, r) == EBinary(l, K(typ, lexeme, n), r)
CallE(callee, n, args) == ECall(callee, K("RightParen", ")", n), args)
Ret(n, e) == SReturn(K("Return", "return", n), e)
Asg(x, n, e) == EAssign(I(x, n), e)
This(n) == EThis(K("This", "this", n))

\* fun make() { var i = 0; fun next() { i = i + 1; return i; } return next; }
Make(b) ==
    SFunction(I("make", b + 1), <<>>,
      << SVar(I("i", b + 2), Nm(0)),
         SFunction(I("next", b + 3), <<>>,
           << SExpression(Asg("i", b + 4, Bin(V("i", b + 5), "Plus", "+", b + 6, Nm(1)))),
              Ret(b + 7, V("i", b + 8)) >>),
         Ret(b + 9, V("next", b + 10)) >>)
\* var c = make();
VarC(b) == SVar(I("c", b + 1), CallE(V("make", b + 2), b + 3, <<>>))
\* print c();
PrintC(b) == SPrint(CallE(V("c", b + 1), b + 2, <<>>))
\* { var y = 1; fun show() { print y; } { var y = 2; show(); } }
Show(b) ==
    SBlock(<< SVar(I("y", b + 1), Nm(1)),
              SFunction(I("show", b + 2), <<>>, << SPrint(V("y", b + 3)) >>),
              SBlock(<< SVar(I("y", b + 4), Nm(2)),
                        SExpression(CallE(V("show", b + 5), b + 6, <<>>)) >>) >>)
\* { var a = 1; { var a = 2; print a; } }
Shadow(b) ==
    SBlock(<< SVar(I("a", b + 1), Nm(1)),
              SBlock(<< SVar(I("a", b + 2), Nm(2)), SPrint(V("a", b + 3)) >>) >>)
\* { var a = 1; a = 2; print a; }
Assign0(b) ==
    SBlock(<< SVar(I("a", b + 1), Nm(1)),
              SExpression(Asg("a", b + 2, Nm(2))),
              SPrint(V("a", b + 3)) >>)
\* { var a = 1; { a = 2; } print a; }
Assign1(b) ==
    SBlock(<< SVar(I("a", b + 1), Nm(1)),
              SBlock(<< SExpression(Asg("a", b + 2, Nm(2))) >>),
              SPrint(V("a", b + 3)) >>)
\* var x = 1;
VarX(b) == SVar(I("x", b + 1), Nm(1))
\* x = x + 1;
IncX(b) == SExpression(Asg("x", b + 1, Bin(V("x", b + 2), "Plus", "+", b + 3, Nm(1))))
\* print x;
PrintX(b) == SPrint(V("x", b + 1))
\* print (x = 4) + 1 / 0;
DivZero(b) ==
    SPrint(Bin(EGrouping(Asg("x", b + 1, Nm(4))), "Plus", "+", b + 2,
               Bin(Nm(1), "Slash", "/", b + 3, Nm(0))))
\* print 1 or (x = 5);
OrShort(b) == SPrint(ELogical(Nm(1), K("Or", "or", b + 1), EGrouping(Asg("x", b + 2, Nm(5)))))
\* print nil and (x = 6);
AndShort(b) == SPrint(ELogical(Nil, K("And", "and", b + 1), EGrouping(Asg("x", b + 2, Nm(6)))))
\* print nil or (x = 7);
OrLong(b) == SPrint(ELogical(Nil, K("Or", "or", b + 1), EGrouping(Asg("x", b + 2, Nm(7)))))
\* print x == 1 ? (x = 2) : (x = 3);
Tern(b) ==
    SPrint(ETernary(Bin(V("x", b + 1), "EqualEqual", "==", b + 2, Nm(1)),
                    EGrouping(Asg("x", b + 3, Nm(2))),
                    EGrouping(Asg("x", b + 4, Nm(3)))))
\* fun f(a) { print a; return a; }
FDecl(b) ==
    SFunction(I("f", b + 1), << I("a", b + 2) >>,
              << SPrint(V("a", b + 3)), Ret(b + 4, V("a", b + 5)) >>)
\* f((x = 9), 2);
CallBad(b) ==
    SExpression(CallE(V("f", b + 1), b + 2, << EGrouping(Asg("x", b + 3, Nm(9))), Nm(2) >>))
\* print f(3);
CallGood(b) == SPrint(CallE(V("f", b + 1), b + 2, << Nm(3) >>))
\* fun r(v) { if (true) { return v; } print 2; }
FunR(b) ==
    SFunction(I("r", b + 1), << I("v", b + 2) >>,
              << SIf(Tru, SBlock(<< Ret(b + 3, V("v", b + 4)) >>), None),
                 SPrint(Nm(2)) >>)
\* print r(1);
CallR(b) == SPrint(CallE(V("r", b + 1), b + 2, << Nm(1) >>))
\* print r(nil);
CallRNil(b) == SPrint(CallE(V("r", b + 1), b + 2, << Nil >>))
\* fun q() { var n = 0; while (n < 2) { n = n + 1; return; } print 3; }
FunQ(b) ==
    SFunction(I("q", b + 1), <<>>,
      << SVar(I("n", b + 2), Nm(0)),
         SWhile(Bin(V("n", b + 3), "Less", "<", b + 4, Nm(2)),
                SBlock(<< SExpression(Asg("n", b + 5,
                                          Bin(V("n", b + 6), "Plus", "+", b + 7, Nm(1)))),
                          Ret(b + 8, Nil) >>)),
         SPrint(Nm(3)) >>)
\* q();
CallQ(b) == SExpression(CallE(V("q", b + 1), b + 2, <<>>))
\* class P { init() { this.x = 1; return; } set(v) { this.x = v; } }
ClassP(b) ==
    SClass(I("P", b + 1),
      << SFunction(I("init", b + 2), <<>>,
           << SExpression(ESet(This(b + 3), I("x", b + 4), Nm(1))), Ret(b + 5, Nil) >>),
         SFunction(I("set", b + 6), << I("v", b + 7) >>,
           << SExpression(ESet(This(b + 8), I("x", b + 9), V("v", b + 10))) >>) >>,
      None)
\* var p = P();
VarP(b) == SVar(I("p", b + 1), CallE(V("P", b + 2), b + 3, <<>>))
\* p.set(2);
SetP(b) == SExpression(CallE(EGet(V("p", b + 1), I("set", b + 2)), b + 3, << Nm(2) >>))
\* print p.x;
PrintPx(b) == SPrint(EGet(V("p", b + 1), I("x", b + 2)))
\* class A {}
ClassA(b) == SClass(I("A", b + 1), <<>>, None)
\* print A() == A();
EqA(b) ==
    SPrint(Bin(CallE(V("A", b + 1), b + 2, <<>>), "EqualEqual", "==", b + 3,
               CallE(V("A", b + 4), b + 5, <<>>)))
\* var o = A(); print o == o;   (one statement each)
VarO(b) == SVar(I("o", b + 1), CallE(V("A", b + 2), b + 3, <<>>))
EqO(b) == SPrint(Bin(V("o", b + 1), "EqualEqual", "==", b + 2, V("o", b + 3)))
\* { class D {} class E < D {} }
SubInBlock(b) ==
    SBlock(<< SClass(I("D", b + 1), <<>>, None),
              SClass(I("E", b + 2), <<>>, Some(V("D", b + 3))) >>)
\* return 1;
TopReturn(b) == Ret(b + 1, Nm(1))
\* class C { init(x) { this.x = x; } area { return this.x * this.x; } }
ClassC(b) ==
    SClass(I("C", b + 1),
      << SFunction(I("init", b + 2), << I("x", b + 3) >>,
           << SExpression(ESet(This(b + 4), I("x", b + 5), V("x", b + 6))) >>),
         SGetter(I("area", b + 7),
           << Ret(b + 8, Bin(EGet(This(b + 9), I("x", b + 10)), "Star", "*", b + 11,
                             EGet(This(b + 12), I("x", b + 13)))) >>) >>,
      None)
\* class A { init() { this.x = 1; } set() { this.x = 2; } }
ClassSA(b) ==
    SClass(I("A", b + 1),
      << SFunction(I("init", b + 2), <<>>,
           << SExpression(ESet(This(b + 3), I("x", b + 4), Nm(1))) >>),
         SFunction(I("set", b + 5), <<>>,
           << SExpression(ESet(This(b + 6), I("x", b + 7), Nm(2))) >>) >>,
      None)
\* class B < A { init() { super.init(); } set() { { super.set(); } } }
ClassSB(b) ==
    SClass(I("B", b + 1),
      << SFunction(I("init", b + 3), <<>>,
           << SExpression(CallE(ESuper(K("Super", "super", b + 4), I("init", b + 5)),
                                b + 6, <<>>)) >>),
         SFunction(I("set", b + 7), <<>>,
           << SBlock(<< SExpression(CallE(ESuper(K("Super", "super", b + 8),
                                                 I("set", b + 9)), b + 10, <<>>)) >>) >>) >>,
      Some(V("A", b + 2)))
\* var b = B();
VarSB(b) == SVar(I("b", b + 1), CallE(V("B", b + 2), b + 3, <<>>))
\* b.set();
SetSB(b) == SExpression(CallE(EGet(V("b", b + 1), I("set", b + 2)), b + 3, <<>>))
\* print b.x;
PrintSB(b) == SPrint(EGet(V("b", b + 1), I("x", b + 2)))
\* class V { init() { return 1; } }
ClassV(b) ==
    SClass(I("V", b + 1), << SFunction(I("init", b + 2), <<>>, << Ret(b + 3, Nm(1)) >>) >>,
           None)
\* class G { g { return super.m; } }
ClassG(b) ==
    SClass(I("G", b + 1),
      << SGetter(I("g", b + 2),
           << Ret(b + 3, ESuper(K("Super", "super", b + 4), I("m", b + 5))) >>) >>,
      None)
\* class N { m() { return super.m; } }
ClassN(b) ==
    SClass(I("N", b + 1),
      << SFunction(I("m", b + 2), <<>>,
           << Ret(b + 3, ESuper(K("Super", "super", b + 4), I("m", b + 5))) >>) >>,
      None)
\* print super.x;
SuperTop(b) == SPrint(ESuper(K("Super", "super", b + 1), I("x", b + 2)))
\* { var a = 1; { var a = a + 1; } }
OwnInit(b) ==
    SBlock(<< SVar(I("a", b + 1), Nm(1)),
              SBlock(<< SVar(I("a", b + 2),
                             Bin(V("a", b + 3), "Plus", "+", b + 4, Nm(1))) >>) >>)
\* class H { g { var x = x; } }
ClassH(b) ==
    SClass(I("H", b + 1),
      << SGetter(I("g", b + 2), << SVar(I("x", b + 3), V("x", b + 4)) >>) >>, None)
\* { var e = 1; { print e / 0; } }
BlockErr(b) ==
    SBlock(<< SVar(I("e", b + 1), Nm(1)),
              SBlock(<< SPrint(Bin(V("e", b + 2), "Slash", "/", b + 3, Nm(0))) >>) >>)
\* print C(4).area;
PrintArea(b) == SPrint(EGet(CallE(V("C", b + 1), b + 2, << Nm(4) >>), I("area", b + 3)))
\* { print x; x = 3; }
UseX(b) == SBlock(<< SPrint(V("x", b + 1)), SExpression(Asg("x", b + 2, Nm(3))) >>)
\* class F { init() { print nope; } }
ClassF(b) ==
    SClass(I("F", b + 1),
      << SFunction(I("init", b + 2), <<>>, << SPrint(V("nope", b + 3)) >>) >>, None)
\* F();
NewF(b) == SExpression(CallE(V("F", b + 1), b + 2, <<>>))
\* C();
NewC0(b) == SExpression(CallE(V("C", b + 1), b + 2, <<>>))
\* C(1, 2);
NewC2(b) == SExpression(CallE(V("C", b + 1), b + 2, << Nm(1), Nm(2) >>))

Pool ==
    {"Make", "VarC", "PrintC", "Show", "Shadow", "Assign0", "Assign1", "VarX", "IncX",
     "PrintX", "DivZero", "OrShort", "AndShort", "OrLong", "Tern", "FDecl", "CallBad",
     "CallGood", "FunR", "CallR", "CallRNil", "FunQ", "CallQ", "ClassP", "VarP", "SetP",
     "PrintPx", "ClassA", "EqA", "VarO", "EqO", "SubInBlock", "TopReturn"}

Snippet(name, b) ==
    CASE name = "Make" -> Make(b) [] name = "VarC" -> VarC(b) [] name = "PrintC" -> PrintC(b)
      [] name = "Show" -> Show(b) [] name = "Shadow" -> Shadow(b)
      [] name = "Assign0" -> Assign0(b) [] name = "Assign1" -> Assign1(b)
      [] name = "VarX" -> VarX(b) [] name = "IncX" -> IncX(b) [] name = "PrintX" -> PrintX(b)
      [] name = "DivZero" -> DivZero(b) [] name = "OrShort" -> OrShort(b)
      [] name = "AndShort" -> AndShort(b) [] name = "OrLong" -> OrLong(b)
      [] name = "Tern" -> Tern(b) [] name = "FDecl" -> FDecl(b)
      [] name = "CallBad" -> CallBad(b) [] name = "CallGood" -> CallGood(b)
      [] name = "FunR" -> FunR(b) [] name = "CallR" -> CallR(b)
      [] name = "CallRNil" -> CallRNil(b) [] name = "FunQ" -> FunQ(b)
      [] name = "CallQ" -> CallQ(b) [] name = "ClassP" -> ClassP(b) [] name = "VarP" -> VarP(b)
      [] name = "SetP" -> SetP(b) [] name = "PrintPx" -> PrintPx(b)
      [] name = "ClassA" -> ClassA(b) [] name = "EqA" -> EqA(b) [] name = "VarO" -> VarO(b)
      [] name = "EqO" -> EqO(b) [] name = "SubInBlock" -> SubInBlock(b)
      [] name = "TopReturn" -> TopReturn(b)
      [] name = "ClassC" -> ClassC(b) [] name = "PrintArea" -> PrintArea(b)
      [] name = "ClassSA" -> ClassSA(b) [] name = "ClassSB" -> ClassSB(b)
      [] name = "VarSB" -> VarSB(b) [] name = "SetSB" -> SetSB(b)
      [] name = "PrintSB" -> PrintSB(b) [] name = "ClassV" -> ClassV(b)
      [] name = "ClassG" -> ClassG(b) [] name = "ClassN" -> ClassN(b)
      [] name = "SuperTop" -> SuperTop(b)
      [] name = "OwnInit" -> OwnInit(b) [] name = "ClassH" -> ClassH(b)
      [] name = "BlockErr" -> BlockErr(b) [] name = "UseX" -> UseX(b)
      [] name = "ClassF" -> ClassF(b) [] name = "NewF" -> NewF(b)
      [] name = "NewC0" -> NewC0(b) [] name = "NewC2" -> NewC2(b)

\* whole programs, as lists of statement names
Scenarios ==
    { <<"Make", "VarC", "PrintC", "PrintC", "PrintC">>,
      <<"ClassP", "VarP", "SetP", "PrintPx">>,
      <<"VarX", "FDecl", "CallBad", "PrintX", "CallGood">>,
      <<"VarX", "DivZero", "IncX", "PrintX">>,
      <<"VarX", "OrShort", "AndShort", "OrLong", "PrintX">>,
      <<"VarX", "Tern", "Tern", "PrintX">>,
      <<"FunR", "CallR", "CallRNil">>,
      <<"ClassA", "VarO", "EqO", "EqA">>,
      <<"ClassC", "PrintArea">>,
      <<"ClassSA", "ClassSB", "VarSB", "SetSB", "PrintSB">>,
      <<"ClassV">>, <<"ClassG">>, <<"ClassN">>,
      <<"ClassSA", "ClassSB", "SuperTop">>,
      <<"VarX", "PrintX", "OwnInit">>, <<"ClassH">>,
      <<"FunR", "CallR", "BlockErr", "Show">>,
      <<"VarX", "Shadow", "IncX">>,
      <<"VarX", "UseX", "PrintX">>,
      <<"ClassF", "NewF", "NewF">>,
      <<"ClassC", "NewC2", "NewC0", "PrintArea">> }

UpTo(n) == UNION {[1..m -> Pool] : m \in 1..n}
ProgramNames == Scenarios \cup UpTo(MaxProg)
Build(names) == [p \in 1..Len(names) |-> Snippet(names[p], TokBase * p)]

\* ---------------------------------------------------------------- sources
\* Source texts, as lists of characters.
\* print 1;
TextPrintOne ==
    <<"p", "r", "i", "n", "t", " ", "1", ";">>

\* print 1 + 2 * 3;
TextPrintSum ==
    <<"p", "r", "i", "n", "t", " ", "1", " ", "+", " ", "2", " ", "*", " ", "3", ";">>

\* var a = 1;
TextVarA ==
    <<"v", "a", "r", " ", "a", " ", "=", " ", "1", ";">>

\* print a;
TextPrintA ==
    <<"p", "r", "i", "n", "t", " ", "a", ";">>

\* print ;
TextPrintNone ==
    <<"p", "r", "i", "n", "t", " ", ";">>

\* var = 2;
TextVarNone ==
    <<"v", "a", "r", " ", "=", " ", "2", ";">>

\* @
TextAt ==
    <<"@">>

\* print "ab
TextOpen ==
    <<"p", "r", "i", "n", "t", " ", "\"", "a", "b">>

\* for (var i = 0; i < 2; i = i + 1) { print i; }
TextForBlock ==
    <<"f", "o", "r", " ", "(", "v", "a", "r", " ", "i", " ", "=", " ", "0", ";", " ", "i", " ",
      "<", " ", "2", ";", " ", "i", " ", "=", " ", "i", " ", "+", " ", "1", ")", " ", "{", " ",
      "p", "r", "i", "n", "t", " ", "i", ";", " ", "}">>

\* for (var i = 0; i < 2; i = i + 1) print i;
TextForSingle ==
    <<"f", "o", "r", " ", "(", "v", "a", "r", " ", "i", " ", "=", " ", "0", ";", " ", "i", " ",
      "<", " ", "2", ";", " ", "i", " ", "=", " ", "i", " ", "+", " ", "1", ")", " ", "p", "r",
      "i", "n", "t", " ", "i", ";">>

\* for (;;) print 1;
TextForPlain ==
    <<"f", "o", "r", " ", "(", ";", ";", ")", " ", "p", "r", "i", "n", "t", " ", "1", ";">>

\* print 1/0;
TextGlued ==
    <<"p", "r", "i", "n", "t", " ", "1", "/", "0", ";">>
\* print 1; print ; var = 2; print 3;
TextMixed ==
    <<"p", "r", "i", "n", "t", " ", "1", ";", " ", "p", "r", "i", "n", "t", " ", ";", " ", "v",
      "a", "r", " ", "=", " ", "2", ";", " ", "p", "r", "i", "n", "t", " ", "3", ";">>

\* // ab<newline>print 1;
TextLine ==
    <<"/", "/", " ", "a", "b", "\n", "p", "r", "i", "n", "t", " ", "1", ";">>

\* //ab<newline>print 1;
TextLineGlued ==
    <<"/", "/", "a", "b", "\n", "p", "r", "i", "n", "t", " ", "1", ";">>

\* /* a */ print 1;
TextBlock ==
    <<"/", "*", " ", "a", " ", "*", "/", " ", "p", "r", "i", "n", "t", " ", "1", ";">>

\* /* a */print 1;
TextBlockGlued ==
    <<"/", "*", " ", "a", " ", "*", "/", "p", "r", "i", "n", "t", " ", "1", ";">>

\* /* a * b */ print 1;
TextBlockStar ==
    <<"/", "*", " ", "a", " ", "*", " ", "b", " ", "*", "/", " ", "p", "r", "i", "n", "t", " ",
      "1", ";">>

\* class A < B { m ( ) { return this . x ; } g { } class s ( ) { super . m ( ) ; } }
TextClass ==
    <<"c", "l", "a", "s", "s", " ", "A", " ", "<", " ", "B", " ", "{", " ", "m", " ", "(", " ",
      ")", " ", "{", " ", "r", "e", "t", "u", "r", "n", " ", "t", "h", "i", "s", " ", ".", " ",
      "x", " ", ";", " ", "}", " ", "g", " ", "{", " ", "}", " ", "c", "l", "a", "s", "s", " ",
      "s", " ", "(", " ", ")", " ", "{", " ", "s", "u", "p", "e", "r", " ", ".", " ", "m", " ",
      "(", " ", ")", " ", ";", " ", "}", " ", "}">>

\* fun f ( a , b ) { }
TextFun ==
    <<"f", "u", "n", " ", "f", " ", "(", " ", "a", " ", ",", " ", "b", " ", ")", " ", "{", " ",
      "}">>

\* f ( fun ( ) { } , 1 ) ;
TextCall ==
    <<"f", " ", "(", " ", "f", "u", "n", " ", "(", " ", ")", " ", "{", " ", "}", " ", ",", " ",
      "1", " ", ")", " ", ";">>

\* if ( a ) a . b = - 2 ; else while ( a or b ) c = nil ;
TextIf ==
    <<"i", "f", " ", "(", " ", "a", " ", ")", " ", "a", " ", ".", " ", "b", " ", "=", " ", "-",
      " ", "2", " ", ";", " ", "e", "l", "s", "e", " ", "w", "h", "i", "l", "e", " ", "(", " ",
      "a", " ", "o", "r", " ", "b", " ", ")", " ", "c", " ", "=", " ", "n", "i", "l", " ", ";">>

\* b ? 2 : 3 ;
TextTernary ==
    <<"b", " ", "?", " ", "2", " ", ":", " ", "3", " ", ";">>

\* ( 3 ) ;
TextGroup ==
    <<"(", " ", "3", " ", ")", " ", ";">>

\* print
TextPrintEnd ==
    <<"p", "r", "i", "n", "t">>

\* { print 1;
TextBlockEnd ==
    <<"{", " ", "p", "r", "i", "n", "t", " ", "1", ";">>

\* class A { m ( ) { } g
TextClassEnd ==
    <<"c", "l", "a", "s", "s", " ", "A", " ", "{", " ", "m", " ", "(", " ", ")", " ", "{", " ", "}", " ", "g">>

\* ) ; }
TextCloseFirst ==
    <<")", " ", ";", " ", "}">>

\* a=b;
TextAssignGlued ==
    <<"a", "=", "b", ";">>

\* a = b;
TextAssignSpaced ==
    <<"a", " ", "=", " ", "b", ";">>

TextPool == {TextPrintEnd, TextBlockEnd, TextClassEnd, TextCloseFirst, TextAssignGlued, TextAssignSpaced, TextClass, TextFun, TextCall, TextIf, TextTernary, TextGroup, TextMixed, TextLine, TextLineGlued, TextBlock, TextBlockGlued, TextBlockStar,
            TextPrintOne, TextPrintSum, TextVarA, TextPrintA, TextPrintNone, TextVarNone, TextAt, TextOpen, TextForBlock, TextForSingle, TextForPlain, TextGlued}

\* sources of up to MaxText texts, a space between two texts
MaxText == 2
RECURSIVE Join(_)
Join(texts) ==
    IF Len(texts) = 1 THEN texts[1] ELSE texts[1] \o <<" ">> \o Join(Tail(texts))
Sources == {Join(texts) : texts \in UNION {[1..m -> TextPool] : m \in 1..MaxText}}

\* ---------------------------------------------------------------- the pipeline
VARIABLES
    source,     \* the source text, a list of characters
    scanned,    \* the scanner after scan_tokens
    parsed,     \* the result of Parser::run
    names,      \* the program, as the names of its statements
    program,    \* the program: the list of its top-level statements
    phase,      \* "source", "scanned", "unparsed", "aborted", "start", "running",
                \* "finished", "rejected" or "crashed"
    pc,         \* the index of the next character, then of the next top-level statement
    resolved,   \* the result of Resolver::run
    interp      \* the interpreter state
vars == <<source, scanned, parsed, names, program, phase, pc, resolved, interp>>

HashOrders == {"F", "O"}

NotParsed ==
    [panic |-> FALSE, ok |-> FALSE, errors |-> <<>>, statements |-> <<>>, syncs |-> 0,
     fors |-> <<>>, roots |-> <<>>, stmt_pool |-> <<>>, expr_pool |-> <<>>, adds |-> <<>>,
     current |-> 0, iters |-> <<>>]

\* a run starts from a source text or, past the parser, from a syntax tree
Init ==
    /\ \/ /\ source \in Sources
          /\ names = <<>>
          /\ program = <<>>
          /\ phase = "source"
       \/ /\ source = <<>>
          /\ names \in ProgramNames
          /\ program = Build(names)
          /\ phase = "start"
    /\ scanned = Scanner_new
    /\ parsed = NotParsed
    /\ pc = 1
    /\ resolved = ROk(Resolver_new)
    /\ interp = Interpreter_new(EmptyMap, "")

\* main.rs run: Scanner::new(source), scan_tokens.  One iteration of the loop
\* of scan_tokens over the characters of the source; pc is the index of the
\* next character.
ScanChar ==
    /\ phase = "source"
    /\ pc <= Len(source)
    /\ scanned' = [scan_token(scanned, source[pc]) EXCEPT
                       !.mode = NextMode(scanned.mode, source[pc])]
    /\ pc' = pc + 1
    /\ UNCHANGED <<source, parsed, names, program, phase, resolved, interp>>

\* the end of the loop of scan_tokens: the tokens go to the parser
Scan ==
    /\ phase = "source"
    /\ pc > Len(source)
    /\ scanned' = scan_tokens(scanned)
    /\ phase' = "scanned"
    /\ pc' = 1
    /\ UNCHANGED <<source, parsed, names, program, resolved, interp>>

\* main.rs run: Parser::new(tokens), the parse; its errors are printed and
\* nothing else runs
Parse ==
    /\ phase = "scanned"
    /\ parsed' = Parser_run(Parser_new(scanned.tokens, FALSE, scanned.text))
    /\ phase' = IF parsed'.panic THEN "aborted"
                ELSE IF parsed'.ok THEN "start" ELSE "unparsed"
    /\ program' = parsed'.statements
    /\ UNCHANGED <<source, scanned, names, pc, resolved, interp>>

\* Resolver::run, then Interpreter::new with its map; a resolve error is
\* printed and nothing runs
Resolve ==
    /\ phase = "start"
    /\ resolved' = Resolver_run(program)
    /\ IF resolved'.err = ""
       THEN /\ phase' = "running"
            /\ interp' = Interpreter_new(resolved'.rs.locals, "")
       ELSE /\ phase' = "rejected"
            /\ interp' = interp
    /\ UNCHANGED <<source, scanned, parsed, names, program, pc>>

\* the state at the end of an iteration of the loop of Interpreter::run, when
\* visit_stmt has returned r: the report of a runtime error is printed
end_of_stmt(r, index) ==
    IF IsOk(r) \/ r.err \in {"panic", "diverge"} THEN [r.s EXCEPT !.hash_order = ""]
    ELSE Log([r.s EXCEPT !.hash_order = ""],
             [ev |-> "report", message |-> r.err, seq |-> r.tok.seq, index |-> index,
              envs |-> Len(r.s.envs), globals |-> r.s.envs[Globals].values])

\* Interpreter_run with a loop that ends at the first runtime error
Interpreter_run_abort(s, stmt, index, order) ==
    Let(visit_stmt(Log([s EXCEPT !.hash_order = order, !.depth = 0],
                       [ev |-> "top", index |-> index, globals |-> s.envs[Globals].values]),
                   stmt),
        LAMBDA r : [s |-> end_of_stmt(r, index), stop |-> ~IsOk(r)])

\* one iteration of the loop of Interpreter::run: visit the statement and
\* print the report of a runtime error; the loop goes on either way.  stop is
\* set when the process itself dies (a panic, a loop without end).  order is
\* the order the hash maps happen to be compared in during this statement.
Interpreter_run(s, stmt, index, order) ==
    Let(visit_stmt(Log([s EXCEPT !.hash_order = order, !.depth = 0],
                       [ev |-> "top", index |-> index, globals |-> s.envs[Globals].values]),
                   stmt),
        LAMBDA r : [s |-> end_of_stmt(r, index), stop |-> r.err \in {"panic", "diverge"}])

Step ==
    /\ phase = "running"
    /\ pc <= Len(program)
    /\ \E order \in HashOrders :
         \E r \in {Interpreter_run(interp, program[pc], pc, order)} :
             /\ interp' = r.s
             /\ phase' = IF r.stop THEN "crashed" ELSE "running"
             /\ pc' = IF r.stop THEN pc ELSE pc + 1
    /\ UNCHANGED <<source, scanned, parsed, names, program, resolved>>

Finish ==
    /\ phase = "running"
    /\ pc > Len(program)
    /\ phase' = "finished"
    /\ UNCHANGED <<source, scanned, parsed, names, program, pc, resolved, interp>>

Next == ScanChar \/ Scan \/ Parse \/ Resolve \/ Step \/ Finish

Spec == Init /\ [][Next]_vars

\* what the program printed, in order
Printed(s) ==
    LET p == SelectSeq(s.trace, LAMBDA e : e.ev = "print")
    IN  [i \in 1..Len(p) |-> p[i].value]

\* ---------------------------------------------------------------- properties
Trace == interp.trace
Events(kind) == {i \in DOMAIN Trace : Trace[i].ev = kind}
Num1(n) == LitNumber(n)
\* what statement number index of the program printed
PrintedBy(index) ==
    LET tops == Events("top")
        from == IF \E i \in tops : Trace[i].index = index
                THEN CHOOSE i \in tops : Trace[i].index = index ELSE Len(Trace) + 1
        to == IF \E i \in tops : Trace[i].index = index + 1
              THEN CHOOSE i \in tops : Trace[i].index = index + 1 ELSE Len(Trace) + 1
        p == SelectSeq(SubSeq(Trace, from, to - 1), LAMBDA e : e.ev = "print")
    IN  [i \in 1..Len(p) |-> p[i].value]
\* statement number index has been run
Ran(index) == phase \in {"running", "finished"} /\ pc > index

\* C1 (closure law): every call of a function value made by a fun statement
\* or a lambda runs in a new frame whose parent is a frame that was current
\* when that function was made, whoever calls it; so the counter made by
\* make() counts 1, 2, 3 and show() prints the y of its defining block, not
\* the y of the block that calls it.
ClosureLaw ==
    /\ \A j \in Events("call") :
          (\E i \in Events("fun_new") : Trace[i].body = Trace[j].body) =>
             /\ Trace[j].frame <= Len(interp.envs)
             /\ \A e \in Events("apply") : e < j => Trace[e].envs < Trace[j].frame
             /\ \E i \in Events("fun_new") :
                   /\ i < j
                   /\ Trace[i].body = Trace[j].body
                   /\ interp.envs[Trace[j].frame].outer_scope = Trace[i].env
    /\ (names = <<"Make", "VarC", "PrintC", "PrintC", "PrintC">> /\ phase = "finished")
          => Printed(interp) = <<Num1(1), Num1(2), Num1(3)>>
    /\ \A p \in DOMAIN names : (names[p] = "Show" /\ Ran(p)) => PrintedBy(p) = <<Num1(1)>>

\* a closure is called after the call that made its defining frame has ended
ClosureLawWitness ==
    \E i \in Events("fun_new"), k \in Events("exit"), j \in Events("call") :
        /\ i < k /\ k < j
        /\ Trace[k].frame = Trace[i].env
        /\ Trace[j].body = Trace[i].body
        /\ interp.envs[Trace[j].frame].outer_scope = Trace[i].env
        /\ Printed(interp) = <<Num1(1), Num1(2), Num1(3)>>

\* C2 (method binding identity): whenever o.m is evaluated, the this of the
\* bound function is the object o itself.
MethodBindingIdentity ==
    \A i \in Events("bind") : Trace[i].this = Trace[i].receiver

\* C3 (lexical shadowing): the depth recorded for a use of a name is the
\* distance from the use's scope to the nearest scope that contains the name.
Nearest(scopes, lexeme) ==
    CHOOSE i \in DOMAIN scopes :
        /\ MapHas(scopes[i], lexeme)
        /\ \A j \in DOMAIN scopes : MapHas(scopes[j], lexeme) => j <= i
LexicalShadowing ==
    \A u \in DOMAIN resolved.rs.uses :
        LET use == resolved.rs.uses[u]
        IN  (\E i \in DOMAIN use.scopes : MapHas(use.scopes[i], use.name.lexeme)) =>
               /\ use.name \in DOMAIN resolved.rs.locals
               /\ resolved.rs.locals[use.name] =
                     Len(use.scopes) - Nearest(use.scopes, use.name.lexeme)

\* C4 (local assignment is observed): after an assignment to a local name
\* resolved at depth d, for every d >= 0, the frame d levels out holds the
\* assigned value.
LocalAssignObserved ==
    \A i \in Events("assign_local") :
        Trace[i].after.found /\ Trace[i].after.v = Trace[i].value

\* C5 (return unwinds immediately): once a return statement has run in a
\* call, no statement and no loop iteration runs in that call before the call
\* ends, whatever value is returned.
ReturnUnwinds ==
    \A i \in Events("return") : \A j \in Events("exec") \cup Events("iterate") :
        (i < j /\ Trace[j].depth = Trace[i].depth) =>
            \E k \in Events("exit") \cup Events("top") \cup Events("report") :
                i < k /\ k < j /\ (Trace[k].ev = "exit" => Trace[k].depth = Trace[i].depth)

\* C6 (init return): the value of a call of a class is the object that call
\* has just made, and when the class has an init, init has been called with
\* this bound to that object, and has ended, before the call has its value;
\* so it is when init runs a bare return.
ThisOf(frame) == interp.envs[interp.envs[frame].outer_scope].values["this"]
InitReturn ==
    \A e \in Events("called") :
        LET at == Trace[e].at
        IN  Trace[at].callee = "Class" =>
              /\ Trace[at + 1].ev = "new_object"
              /\ Trace[at + 1].ref > Trace[at].objs
              /\ Trace[e].value = LitInstance(Dynamic(Trace[at + 1].ref))
              /\ Trace[at].init =>
                    \E c \in Events("call"), x \in Events("exit") :
                        /\ at < c /\ c < x /\ x < e
                        /\ Trace[c].init
                        /\ Trace[x].frame = Trace[c].frame
                        /\ ThisOf(Trace[c].frame) = Trace[e].value
                        /\ \A k \in Events("call") : k < c => k < at

\* a class call whose init ran a return statement has yielded its value
InitReturnWitness ==
    \E e \in Events("called"), r \in Events("return") :
        /\ Trace[Trace[e].at].callee = "Class"
        /\ Trace[Trace[e].at].init
        /\ Trace[e].at < r /\ r < e
        /\ Trace[e].value.t = "Instance"

\* C7 (short-circuit law): between the moment the left operand of or, and,
\* ?: has its value and the moment the expression has its own, no part of the
\* operand that is not chosen is evaluated; a logical expression that
\* short-circuits has the value of its left operand and one that does not has
\* the value of its right operand.
Unchosen(d) ==
    CASE d.typ = "Or" -> IF is_truthy(d.left) THEN d.right ELSE {}
      [] d.typ = "And" -> IF is_truthy(d.left) THEN {} ELSE d.right
      [] d.typ = "Ternary" -> IF is_truthy(d.left) THEN d.right ELSE d.middle
\* the end of the evaluation that event d is part of: its decided event, or
\* the end of the top-level statement
EndOf(d) ==
    IF \E k \in Events("decided") : Trace[k].at = d
    THEN CHOOSE k \in Events("decided") : Trace[k].at = d
    ELSE IF \E k \in Events("top") : k > d
    THEN CHOOSE k \in Events("top") : k > d /\ \A j \in Events("top") : j > d => k <= j
    ELSE Len(Trace) + 1
ShortCircuitLaw ==
    \A d \in Events("decide") :
        /\ \A e \in Events("eval") :
              (d < e /\ e < EndOf(d) /\ Trace[e].depth = Trace[d].depth)
                 => Trace[e].seq \notin Unchosen(Trace[d])
        /\ (Trace[d].typ \in {"Or", "And"} /\ Unchosen(Trace[d]) # {}) =>
              /\ d + 1 \in Events("decided")
              /\ Trace[d + 1].at = d
              /\ Trace[d + 1].value = Trace[d].left
        /\ (Trace[d].typ \in {"Or", "And"} /\ Unchosen(Trace[d]) = {}) =>
              \A k \in Events("decided") :
                  Trace[k].at = d =>
                     /\ "operand" \in DOMAIN Trace[k]
                     /\ Trace[k].value = Trace[k].operand

\* or, and, ?: have each left an operand with a side effect unevaluated, and
\* an or has had the value of its left operand, which is not a boolean
ShortCircuitLawWitness ==
    /\ \E d \in Events("decide") :
          /\ Trace[d].typ = "Or" /\ Unchosen(Trace[d]) # {}
          /\ Trace[d + 1].value = Num1(1)
    /\ \E d \in Events("decide") : Trace[d].typ = "And" /\ Unchosen(Trace[d]) # {}
    /\ \E d \in Events("decide") : Trace[d].typ = "Or" /\ Unchosen(Trace[d]) = {}
    /\ phase = "finished"
    /\ Printed(interp) = <<Num1(1), Nothing, Num1(7), Num1(7)>>

\* C8 (runtime error recovery): a runtime error ends the top-level statement
\* that raised it, is reported once, and the statements after it run in
\* order, with the global bindings as the statement left them.
RuntimeErrorRecovery ==
    /\ \A i \in Events("raise") :
          /\ i + 1 \in Events("report")
          /\ Trace[i + 1].message = Trace[i].message
          /\ Trace[i + 1].seq = Trace[i].seq
    /\ \A k \in Events("report") :
          /\ k - 1 \in Events("raise")
          /\ k < Len(Trace) =>
                /\ Trace[k + 1].ev = "top"
                /\ Trace[k + 1].index = Trace[k].index + 1
                /\ Trace[k + 1].globals = Trace[k].globals
          /\ (k = Len(Trace) /\ Trace[k].index < Len(program)) =>
                /\ phase = "running"
                /\ pc = Trace[k].index + 1
                /\ interp.environment = Globals
                /\ interp.envs[Globals].values = Trace[k].globals
    /\ \A i, j \in Events("top") :
          (i < j /\ \A k \in Events("top") : ~(i < k /\ k < j))
             => Trace[j].index = Trace[i].index + 1
    /\ phase = "finished" => {Trace[i].index : i \in Events("top")} = DOMAIN program
    /\ phase = "crashed" => Trace[Len(Trace)].ev # "report"

\* a statement has raised an error after an assignment to a global, and the
\* statements after it have run and seen the assignment
RuntimeErrorRecoveryWitness ==
    /\ names = <<"VarX", "DivZero", "IncX", "PrintX">>
    /\ phase = "finished"
    /\ \E k \in Events("report") : Trace[k].index = 2 /\ Trace[k].globals["x"] = Num1(4)
    /\ Printed(interp) = <<Num1(5)>>

\* C9 (instance equality is by reference): == on two instances is true
\* exactly when they are the same object.
InstanceEqByRef ==
    \A i \in Events("eq") :
        (/\ Trace[i].l.t = "Instance" /\ Trace[i].r.t = "Instance"
         /\ Trace[i].l.i.k = "Dynamic" /\ Trace[i].r.i.k = "Dynamic")
           => ((Trace[i].result = "T") <=> (Trace[i].l.i.ref = Trace[i].r.i.ref))

\* C10 (function arity): a call of a function with a number of arguments
\* that is not its number of parameters has evaluated its callee and every
\* argument, then raises "Wrong number of arguments." at the closing
\* parenthesis; no frame is made and nothing of the body runs.
FunctionArity ==
    \A i \in Events("apply") :
        (Trace[i].callee = "Fun" /\ Trace[i].nargs # Trace[i].arity) =>
            /\ Trace[i].evaluated = Trace[i].nargs
            /\ \A h \in Trace[i].heads \ {0} :
                  \E e \in Events("eval") :
                      /\ e < i /\ Trace[e].seq = h
                      /\ \A k \in Events("top") : k < i => k < e
            /\ i + 1 \in Events("raise")
            /\ Trace[i + 1].message = "Wrong number of arguments."
            /\ Trace[i + 1].seq = Trace[i].seq
            /\ i + 2 \in Events("report")
            /\ Trace[i + 2].envs = Trace[i].envs

\* a function of one parameter has been called with two arguments, the first
\* of them an assignment, and the assignment has been seen afterwards
FunctionArityWitness ==
    /\ \E i \in Events("apply") :
          /\ Trace[i].callee = "Fun" /\ Trace[i].nargs = 2 /\ Trace[i].arity = 1
          /\ Trace[i + 2].ev = "report"
          /\ Trace[i + 2].globals["x"] = Num1(9)
    /\ phase = "finished"
    /\ Printed(interp) = <<Num1(9), Num1(3), Num1(3)>>

\* C11 (getter access): reading o.g, where g is a getter of the class of o,
\* runs the body of g at once with this bound to o, and the value of the
\* expression is the value that body returns.
GetterAccess ==
    \A g \in Events("get") :
        Trace[g].kind = "Get" =>
            \E c \in Events("call"), r \in Events("got") :
                /\ c = g + 1
                /\ Trace[c].body = Trace[g].body
                /\ ThisOf(Trace[c].frame) = LitInstance(Dynamic(Trace[g].receiver))
                /\ Trace[r].at = g
                /\ \A k \in Events("return") :
                       (c < k /\ k < r /\ Trace[k].depth = Trace[c].depth)
                           => Trace[r].value = Trace[k].value

\* the class statements of a list of statements, nested ones included
RECURSIVE ClassesIn(_)
ClassesIn(sts) ==
    IF sts = <<>> THEN {}
    ELSE ClassesIn(Tail(sts)) \cup
         Let(Head(sts), LAMBDA st :
             CASE st.k = "Block" -> ClassesIn(st.statements)
               [] st.k \in {"Function", "Getter"} -> ClassesIn(st.body)
               [] st.k = "Class" -> {st} \cup ClassesIn(st.methods)
               [] st.k = "If" -> ClassesIn(<<st.then_branch>> \o st.else_branch)
               [] st.k = "While" -> ClassesIn(<<st.loop>>)
               [] OTHER -> {})
\* the innermost class declaration around the token numbered seq
DeclaringClass(seq) ==
    CHOOSE c \in ClassesIn(program) :
        /\ seq \in StmtToks(c)
        /\ \A c2 \in ClassesIn(program) : seq \in StmtToks(c2) => StmtToks(c) \subseteq StmtToks(c2)

\* C12 (super dispatch): wherever super.m is evaluated inside a method of a
\* subclass invoked on an instance o, the frame at the resolved depth d holds
\* the superclass of the declaring class under super, and the frame at d - 1
\* holds o itself under this (not another object), so the method found on the
\* superclass chain is bound to o.
SuperDispatch ==
    \A e \in Events("super") :
        /\ Trace[e].super.t = "Class"
        /\ Trace[e].super.c.name = DeclaringClass(Trace[e].seq).super_class[1].name.lexeme
        /\ Trace[e].this.t = "Instance"
        /\ \A b \in Events("bind") :
               Trace[e].this = LitInstance(Dynamic(Trace[b].this))
                   => Trace[b].this = Trace[b].receiver
        /\ e < Len(Trace)
        /\ Trace[e + 1].ev = "apply"
        /\ Trace[e + 2].ev = "call"
        /\ ThisOf(Trace[e + 2].frame) = Trace[e].this

\* C13 (scope rule): at every evaluation of a variable that the resolver
\* recorded with a depth d, the frames around the current environment are
\* as many as the scopes the resolver had open at that use, and get_at at
\* depth d finds the name; so it is for the superclass name of a class
\* declared inside a block.
ScopeRule ==
    \A e \in Events("read_local") :
        /\ Trace[e].found
        /\ \A u \in DOMAIN resolved.rs.uses :
               resolved.rs.uses[u].name.seq = Trace[e].seq
                   => Trace[e].frames = Len(resolved.rs.uses[u].scopes)

\* the program has a class whose method named init holds, as a statement of
\* its body, a return with a value
ValueReturnInInit ==
    \E c \in ClassesIn(program) :
        \E m \in DOMAIN c.methods :
            /\ c.methods[m].k = "Function"
            /\ c.methods[m].name.lexeme = "init"
            /\ \E i \in DOMAIN c.methods[m].body :
                   /\ c.methods[m].body[i].k = "Return"
                   /\ ~IsNilLiteral(c.methods[m].body[i].value)

\* C15 (initializer return rule): whatever the name of the class, a program
\* with a return of a value directly in a method named init is rejected by
\* the resolver, and the resolver gives the initializer message only for such
\* a program (not for a bare return in init, not for a return elsewhere).
InitializerReturnRule ==
    phase # "start" =>
        /\ ValueReturnInInit => resolved.err # ""
        /\ resolved.err = "Cannot return a value from an initializer." => ValueReturnInInit

\* the sequence numbers of the super keywords that occur in a node
RECURSIVE ExprSupers(_), ExprsSupers(_), StmtSupers(_), StmtsSupers(_)
ExprSupers(e) ==
    CASE e.k = "Super" -> {e.keyword.seq}
      [] e.k = "Assign" -> ExprSupers(e.value)
      [] e.k \in {"Binary", "Logical"} -> ExprSupers(e.left) \cup ExprSupers(e.right)
      [] e.k = "Ternary" ->
            ExprSupers(e.left) \cup ExprSupers(e.middle) \cup ExprSupers(e.right)
      [] e.k = "Grouping" -> ExprSupers(e.group)
      [] e.k = "Unary" -> ExprSupers(e.right)
      [] e.k = "Call" -> ExprSupers(e.callee) \cup ExprsSupers(e.arguments)
      [] e.k = "Lambda" -> StmtsSupers(e.body)
      [] e.k = "Get" -> ExprSupers(e.object)
      [] e.k = "Set" -> ExprSupers(e.object) \cup ExprSupers(e.value)
      [] OTHER -> {}
ExprsSupers(es) == IF es = <<>> THEN {} ELSE ExprSupers(Head(es)) \cup ExprsSupers(Tail(es))
StmtSupers(st) ==
    CASE st.k \in {"Expression", "Print"} -> ExprSupers(st.expr)
      [] st.k = "Var" -> ExprSupers(st.initializer)
      [] st.k = "Block" -> StmtsSupers(st.statements)
      [] st.k = "If" -> ExprSupers(st.condition) \cup StmtSupers(st.then_branch)
                          \cup StmtsSupers(st.else_branch)
      [] st.k = "While" -> ExprSupers(st.condition) \cup StmtSupers(st.loop)
      [] st.k \in {"Function", "Getter"} -> StmtsSupers(st.body)
      [] st.k = "Return" -> ExprSupers(st.value)
      [] st.k = "Class" -> StmtsSupers(st.methods) \cup ExprsSupers(st.super_class)
StmtsSupers(sts) == IF sts = <<>> THEN {} ELSE StmtSupers(Head(sts)) \cup StmtsSupers(Tail(sts))

\* the super keywords of the program that stand outside every class, and
\* those whose innermost class declaration has no superclass clause
SupersOutside ==
    {k \in StmtsSupers(program) : \A c \in ClassesIn(program) : k \notin StmtToks(c)}
SupersNoSuperclass ==
    {k \in StmtsSupers(program) \ SupersOutside : ~IsSome(DeclaringClass(k).super_class)}

\* C16 (super static rule): a program with a super expression outside every
\* class, or inside a class declared without a superclass, is rejected by the
\* resolver, and the resolver gives each of the two super messages only for a
\* program that has such an expression; a super after the end of a subclass
\* declaration counts as outside.
SuperStaticRule ==
    phase # "start" =>
        /\ SupersOutside \cup SupersNoSuperclass # {} => resolved.err # ""
        /\ resolved.err = "Can't use 'super' outside of a class." => SupersOutside # {}
        /\ resolved.err = "Can't use 'super' in a class with no superclass."
              => SupersNoSuperclass # {}

\* the names an expression reads in the scope it stands in (the body of a
\* lambda is another scope)
RECURSIVE Reads(_), ReadsAll(_)
Reads(e) ==
    CASE e.k = "Variable" -> {e.name.lexeme}
      [] e.k = "Assign" -> Reads(e.value)
      [] e.k \in {"Binary", "Logical"} -> Reads(e.left) \cup Reads(e.right)
      [] e.k = "Ternary" -> Reads(e.left) \cup Reads(e.middle) \cup Reads(e.right)
      [] e.k = "Grouping" -> Reads(e.group)
      [] e.k = "Unary" -> Reads(e.right)
      [] e.k = "Call" -> Reads(e.callee) \cup ReadsAll(e.arguments)
      [] e.k = "Get" -> Reads(e.object)
      [] e.k = "Set" -> Reads(e.object) \cup Reads(e.value)
      [] OTHER -> {}
ReadsAll(es) == IF es = <<>> THEN {} ELSE Reads(Head(es)) \cup ReadsAll(Tail(es))

\* a list of statements holds, in a local scope, a var statement whose
\* initializer reads the variable itself; local says the list is in a scope
RECURSIVE OwnInitializerIn(_, _)
OwnInitializerIn(sts, local) ==
    /\ sts # <<>>
    /\ \/ OwnInitializerIn(Tail(sts), local)
       \/ Let(Head(sts), LAMBDA st :
              CASE st.k = "Var" -> local /\ st.name.lexeme \in Reads(st.initializer)
                [] st.k = "Block" -> OwnInitializerIn(st.statements, TRUE)
                [] st.k \in {"Function", "Getter"} -> OwnInitializerIn(st.body, TRUE)
                [] st.k = "Class" -> OwnInitializerIn(st.methods, TRUE)
                [] st.k = "If" ->
                      OwnInitializerIn(<<st.then_branch>> \o st.else_branch, local)
                [] st.k = "While" -> OwnInitializerIn(<<st.loop>>, local)
                [] OTHER -> FALSE)

\* C17 (own-initializer rule): a program with a var statement in a local
\* scope whose initializer reads the variable being declared is rejected by
\* the resolver, the own-initializer message is given only for such a
\* program, and a rejected program executes nothing.
OwnInitializerRule ==
    phase # "start" =>
        /\ OwnInitializerIn(program, FALSE) => resolved.err # ""
        /\ resolved.err = "Cannot read local variable in its own initializer."
              => OwnInitializerIn(program, FALSE)
        /\ resolved.err # "" => phase = "rejected" /\ interp.trace = <<>>

\* C20 (block frame discipline): whenever a block has been left, at its end,
\* by a runtime error raised inside it or by a pending return, the current
\* environment is the frame that was current when the block was entered, and
\* the frame of the block cannot be reached from it; every block that was
\* entered has been left when the statement is over, and the environment is
\* then the globals.
Blocks(kind) == {i \in DOMAIN interp.blocks : interp.blocks[i].ev = kind}
BlockFrameDiscipline ==
    /\ \A l \in Blocks("leave") :
           \E e \in Blocks("enter") :
               /\ e < l
               /\ interp.blocks[e].frame = interp.blocks[l].frame
               /\ interp.blocks[l].environment = interp.blocks[e].environment
               /\ interp.blocks[l].frame \notin interp.blocks[l].chain
    /\ phase # "crashed" =>
           /\ \A e \in Blocks("enter") :
                  \E l \in Blocks("leave") :
                      e < l /\ interp.blocks[l].frame = interp.blocks[e].frame
           /\ interp.environment = Globals

\* blocks have been left in each of the three ways, one of them by an error
\* raised in a block nested inside it, and the run has gone on to its end
BlockFrameDisciplineWitness ==
    /\ \A path \in {"end", "error", "return"} :
           \E l \in Blocks("leave") : interp.blocks[l].path = path
    /\ \E l1 \in Blocks("leave"), l2 \in Blocks("leave") :
           /\ l1 < l2
           /\ interp.blocks[l1].path = "error" /\ interp.blocks[l2].path = "error"
    /\ phase = "finished"

\* C14 (for-loop increment): the While the parser builds for a 'for' statement
\* with an increment clause has a block for body, and the last statement of
\* that block is the increment, as an expression statement.
ForLoopIncrement ==
    \A i \in DOMAIN parsed.fors :
        IsSome(parsed.fors[i].increment) =>
            /\ parsed.fors[i].body.k = "Block"
            /\ parsed.fors[i].body.statements # <<>>
            /\ parsed.fors[i].body.statements[Len(parsed.fors[i].body.statements)]
                   = SExpression(parsed.fors[i].increment[1])

\* C18 (parse errors halt the pipeline): once the parser has run, it returns
\* the statements if and only if synchronize was never called; otherwise it
\* returns one error per call of synchronize, in the order of the tokens they
\* are reported at, and no statement: the resolver and the interpreter have
\* not run and never will.
ParseErrorsHalt ==
    (parsed # NotParsed /\ ~parsed.panic) =>
        /\ parsed.ok <=> parsed.syncs = 0
        /\ Len(parsed.errors) = parsed.syncs
        /\ \A i, j \in DOMAIN parsed.errors :
               i < j => parsed.errors[i].seq < parsed.errors[j].seq
        /\ parsed.ok => program = parsed.statements /\ phase # "unparsed"
        /\ ~parsed.ok =>
               /\ parsed.statements = <<>> /\ program = <<>>
               /\ phase = "unparsed"
               /\ resolved = ROk(Resolver_new)
               /\ interp = Interpreter_new(EmptyMap, "")

\* two parse errors among statements that parse: nothing is handed over
ParseErrorsHaltWitness ==
    /\ source = TextMixed
    /\ phase = "unparsed"
    /\ Len(parsed.errors) = 2
    /\ parsed.errors[1].message = "Expect expression."
    /\ parsed.errors[2].message = "Expect variable name."

\* C19 (lex errors halt the pipeline): when the scanner has recorded an error
\* by the end of the scan, the parser, the resolver and the interpreter are
\* not run on the source.
LexErrorsHalt ==
    (phase # "source" /\ scanned.errors # <<>>) =>
        /\ phase = "scanned"
        /\ parsed = NotParsed
        /\ program = <<>>
        /\ resolved = ROk(Resolver_new)
        /\ interp = Interpreter_new(EmptyMap, "")

\* the frames on the chain of e that hold the name
Holders(s, e, lexeme) == {f \in chain(s, e) : MapHas(s.envs[f].values, lexeme)}

\* the nearest of them: every other holder is further out
NearestHolder(s, e, lexeme) ==
    CHOOSE f \in Holders(s, e, lexeme) :
        \A g \in Holders(s, e, lexeme) : g = f \/ g \in chain(s, s.envs[f].outer_scope)

AssignNames == {"a", "x", "zz"}
AssignValue == LitNumber(7)

\* C21 (assign writes exactly one frame): from any frame of the interpreter,
\* assigning a name writes the value into the nearest frame on the parent chain
\* that holds the name and changes nothing else; when no frame on the chain
\* holds the name it fails with 'Undefined variable' and changes no frame.
AssignWritesOneFrame ==
    \A e \in DOMAIN interp.envs : \A lexeme \in AssignNames :
        \E r \in {assign(interp, e, Tok("Identifier", lexeme, 0), AssignValue)} :
            IF Holders(interp, e, lexeme) = {}
            THEN r.err = "Undefined variable" /\ r.s.envs = interp.envs
            ELSE /\ r.err = ""
                 /\ DOMAIN r.s.envs = DOMAIN interp.envs
                 /\ \A f \in DOMAIN interp.envs :
                        IF f = NearestHolder(interp, e, lexeme)
                        THEN /\ r.s.envs[f].outer_scope = interp.envs[f].outer_scope
                             /\ DOMAIN r.s.envs[f].values = DOMAIN interp.envs[f].values
                             /\ r.s.envs[f].values[lexeme] = AssignValue
                             /\ \A n \in DOMAIN interp.envs[f].values \ {lexeme} :
                                    r.s.envs[f].values[n] = interp.envs[f].values[n]
                        ELSE r.s.envs[f] = interp.envs[f]

\* after 'var x = 1; { var a = 1; { var a = 2; print a; } } x = x + 1;' the
\* assignment has written the globals, and a frame is left whose chain holds
\* 'a' twice and 'zz' nowhere
AssignWritesOneFrameWitness ==
    /\ names = <<"VarX", "Shadow", "IncX">>
    /\ phase = "finished"
    /\ interp.envs[Globals].values["x"] = LitNumber(2)
    /\ \E e \in DOMAIN interp.envs :
           /\ Cardinality(Holders(interp, e, "a")) = 2
           /\ NearestHolder(interp, e, "a") = e
           /\ Holders(interp, e, "zz") = {}
           /\ Cardinality(Holders(interp, e, "x")) = 1 /\ NearestHolder(interp, e, "x") = Globals

\* the tokens of a node that are uses of a name: the name of a Variable, of
\* an Assign or of a This, the keyword of a Super
RECURSIVE ExprUses(_), ExprsUses(_), StmtUses(_), StmtsUses(_)
ExprUses(e) ==
    CASE e.k \in {"Variable", "This"} -> {e.name}
      [] e.k = "Assign" -> {e.name} \cup ExprUses(e.value)
      [] e.k = "Super" -> {e.keyword}
      [] e.k \in {"Binary", "Logical"} -> ExprUses(e.left) \cup ExprUses(e.right)
      [] e.k = "Ternary" -> ExprUses(e.left) \cup ExprUses(e.middle) \cup ExprUses(e.right)
      [] e.k = "Grouping" -> ExprUses(e.group)
      [] e.k = "Unary" -> ExprUses(e.right)
      [] e.k = "Call" -> ExprUses(e.callee) \cup ExprsUses(e.arguments)
      [] e.k = "Lambda" -> StmtsUses(e.body)
      [] e.k = "Get" -> ExprUses(e.object)
      [] e.k = "Set" -> ExprUses(e.object) \cup ExprUses(e.value)
      [] OTHER -> {}
ExprsUses(es) == IF es = <<>> THEN {} ELSE ExprUses(Head(es)) \cup ExprsUses(Tail(es))
StmtUses(st) ==
    CASE st.k \in {"Expression", "Print"} -> ExprUses(st.expr)
      [] st.k = "Var" -> ExprUses(st.initializer)
      [] st.k = "Block" -> StmtsUses(st.statements)
      [] st.k = "If" -> ExprUses(st.condition) \cup StmtUses(st.then_branch)
                          \cup StmtsUses(st.else_branch)
      [] st.k = "While" -> ExprUses(st.condition) \cup StmtUses(st.loop)
      [] st.k \in {"Function", "Getter"} -> StmtsUses(st.body)
      [] st.k = "Return" -> ExprUses(st.value)
      [] st.k = "Class" -> StmtsUses(st.methods) \cup ExprsUses(st.super_class)
StmtsUses(sts) == IF sts = <<>> THEN {} ELSE StmtUses(Head(sts)) \cup StmtsUses(Tail(sts))

InScopes(scopes, lexeme) == \E i \in DOMAIN scopes : MapHas(scopes[i], lexeme)

\* the uses whose site the resolver came to, and those inside a class member
\* that it passed over
UsesVisited ==
    \A u \in DOMAIN resolved.rs.uses :
        resolved.rs.uses[u].name \in DOMAIN resolved.rs.locals
            <=> InScopes(resolved.rs.uses[u].scopes, resolved.rs.uses[u].name.lexeme)
UsesPassedOver ==
    \A k \in DOMAIN resolved.rs.skipped :
        \A name \in StmtsUses(resolved.rs.skipped[k].body) :
            InScopes(resolved.rs.skipped[k].scopes, name.lexeme)
                => name \in DOMAIN resolved.rs.locals

\* C22 (the resolver map holds local names only): once a program is resolved,
\* a use of a name has an entry in the depth map if and only if a scope on the
\* scope stack at the use holds its lexeme, and every entry is such a use.
ResolverMapLocalOnly ==
    (phase \in {"running", "finished", "crashed"}) =>
        /\ UsesVisited
        /\ UsesPassedOver
        /\ DOMAIN resolved.rs.locals \subseteq StmtsUses(program)

\* the scanner with nothing pending
Clean(sc) == [sc EXCEPT !.current_kind = "Nothing", !.current_token = "", !.chars = <<>>]

\* a character of a comment, its two opening characters included, adds no token
CommentCharsSilent ==
    (/\ phase = "source" /\ pc <= Len(source)
     /\ \/ scanned.mode \in {"line", "block", "star"}
        \/ scanned.mode = "slash" /\ source[pc] \in {"/", "*"})
        => scanned'.tokens = scanned.tokens

\* the character right after a comment is scanned as if nothing was pending
CommentResumes ==
    (phase = "source" /\ pc <= Len(source) /\ scanned.mode = "ended")
        => scanned' = [scan_token(Clean(scanned), source[pc]) EXCEPT
                           !.mode = NextMode(scanned.mode, source[pc])]

\* a source that ends in a comment or right after one adds only Eof
CommentAtEnd ==
    (/\ phase = "source" /\ pc > Len(source)
     /\ scanned.mode \in {"line", "block", "star", "ended"})
        => scanned'.tokens = Append(scanned.tokens,
                                    Tok("Eof", "", scanned.current_token_number))

\* C23 (comments produce no tokens): no step of the scan adds a token for a
\* character between '//' and the next newline or between '/*' and the first
\* following '*/', and the scan goes on right after the comment as if nothing
\* was pending.
CommentsNoTokens == [][CommentCharsSilent /\ CommentResumes /\ CommentAtEnd]_vars

\* C24 (token sequence numbers): the tokens of a scan carry sequence numbers
\* that strictly increase in the order of emission, at every step of the
\* scan, and once the scan has ended the last token is the only Eof.
TokenSequenceNumbers ==
    /\ \A i, j \in DOMAIN scanned.tokens :
           i < j => scanned.tokens[i].seq < scanned.tokens[j].seq
    /\ phase = "source" => \A i \in DOMAIN scanned.tokens : scanned.tokens[i].typ # "Eof"
    /\ (phase # "source" /\ scanned # Scanner_new) =>
           /\ scanned.tokens # <<>>
           /\ \A i \in DOMAIN scanned.tokens :
                  scanned.tokens[i].typ = "Eof" <=> i = Len(scanned.tokens)

\* the scan of 'print 1; print ; var = 2; print 3;' has ended: twelve tokens
\* and Eof, numbered 0 to 12
TokenSequenceNumbersWitness ==
    /\ source = TextMixed
    /\ phase = "scanned"
    /\ Len(scanned.tokens) = 13
    /\ \A i \in DOMAIN scanned.tokens : scanned.tokens[i].seq = i - 1

\* the handles a stored node holds: its child statements and expressions
OptRefs(opt) == IF IsSome(opt) THEN {opt[1]} ELSE {}
SeqRefs(refs) == {refs[i] : i \in DOMAIN refs}
StmtRefsOf(node) ==
    CASE node.k \in {"Block", "Function", "Getter", "Lambda"} ->
             SeqRefs(IF node.k = "Block" THEN node.statements ELSE node.body)
      [] node.k = "If" -> {node.then_branch} \cup OptRefs(node.else_branch)
      [] node.k = "While" -> {node.loop}
      [] node.k = "Class" -> SeqRefs(node.methods)
      [] OTHER -> {}
ExprRefsOf(node) ==
    CASE node.k \in {"Expression", "Print"} -> {node.expr}
      [] node.k = "Var" -> {node.initializer}
      [] node.k \in {"If", "While"} -> {node.condition}
      [] node.k \in {"Return", "Assign"} -> {node.value}
      [] node.k = "Class" -> OptRefs(node.super_class)
      [] node.k \in {"Binary", "Logical"} -> {node.left, node.right}
      [] node.k = "Ternary" -> {node.left, node.middle, node.right}
      [] node.k = "Grouping" -> {node.group}
      [] node.k = "Unary" -> {node.right}
      [] node.k = "Call" -> {node.callee} \cup SeqRefs(node.arguments)
      [] node.k = "Get" -> {node.object}
      [] node.k = "Set" -> {node.object, node.value}
      [] OTHER -> {}

\* the tree a handle stands for: what Pool::get returns, with every handle
\* in it looked up in turn
RECURSIVE ExpandExpr(_, _), ExpandStmt(_, _)
ExpandStmts(out, refs) == [i \in DOMAIN refs |-> ExpandStmt(out, refs[i])]
ExpandOpt(out, opt, stmt) ==
    IF ~IsSome(opt) THEN None
    ELSE IF stmt THEN Some(ExpandStmt(out, opt[1])) ELSE Some(ExpandExpr(out, opt[1]))
ExpandExpr(out, ref) ==
    Let(Pool_get(out.expr_pool, ref), LAMBDA node :
        CASE node.k = "Assign" -> EAssign(node.name, ExpandExpr(out, node.value))
          [] node.k = "Binary" ->
                EBinary(ExpandExpr(out, node.left), node.operator,
                        ExpandExpr(out, node.right))
          [] node.k = "Logical" ->
                ELogical(ExpandExpr(out, node.left), node.operator,
                         ExpandExpr(out, node.right))
          [] node.k = "Ternary" ->
                ETernary(ExpandExpr(out, node.left), ExpandExpr(out, node.middle),
                         ExpandExpr(out, node.right))
          [] node.k = "Grouping" -> EGrouping(ExpandExpr(out, node.group))
          [] node.k = "Unary" -> EUnary(node.operator, ExpandExpr(out, node.right))
          [] node.k = "Call" ->
                ECall(ExpandExpr(out, node.callee), node.right_paren,
                      [i \in DOMAIN node.arguments |-> ExpandExpr(out, node.arguments[i])])
          [] node.k = "Lambda" -> ELambda(node.params, ExpandStmts(out, node.body))
          [] node.k = "Get" -> EGet(ExpandExpr(out, node.object), node.name)
          [] node.k = "Set" ->
                ESet(ExpandExpr(out, node.object), node.name, ExpandExpr(out, node.value))
          [] OTHER -> node)
ExpandStmt(out, ref) ==
    Let(Pool_get(out.stmt_pool, ref), LAMBDA node :
        CASE node.k = "Expression" -> SExpression(ExpandExpr(out, node.expr))
          [] node.k = "Print" -> SPrint(ExpandExpr(out, node.expr))
          [] node.k = "Var" -> SVar(node.name, ExpandExpr(out, node.initializer))
          [] node.k = "Block" -> SBlock(ExpandStmts(out, node.statements))
          [] node.k = "If" ->
                SIf(ExpandExpr(out, node.condition), ExpandStmt(out, node.then_branch),
                    ExpandOpt(out, node.else_branch, TRUE))
          [] node.k = "While" ->
                SWhile(ExpandExpr(out, node.condition), ExpandStmt(out, node.loop))
          [] node.k = "Function" ->
                SFunction(node.name, node.params, ExpandStmts(out, node.body))
          [] node.k = "Getter" -> SGetter(node.name, ExpandStmts(out, node.body))
          [] node.k = "Return" -> SReturn(node.keyword, ExpandExpr(out, node.value))
          [] node.k = "Class" ->
                SClass(node.name, ExpandStmts(out, node.methods),
                       ExpandOpt(out, node.super_class, FALSE)))

ValidStmtRefs(out, refs) == \A ref \in refs : ref < Len(out.stmt_pool)
ValidExprRefs(out, refs) == \A ref \in refs : ref < Len(out.expr_pool)

\* C25 (arena handle validity): after Parser::run, every root handle and
\* every handle stored in a node of either pool is smaller than the length
\* of the pool it indexes; every node is still found, unchanged, at the
\* handle its add returned; and looking the root handles up gives the very
\* statements the resolver and the interpreter walk.
ArenaHandlesValid ==
    /\ ValidStmtRefs(parsed, SeqRefs(parsed.roots))
    /\ \A i \in DOMAIN parsed.stmt_pool :
           /\ ValidStmtRefs(parsed, StmtRefsOf(parsed.stmt_pool[i]))
           /\ ValidExprRefs(parsed, ExprRefsOf(parsed.stmt_pool[i]))
    /\ \A i \in DOMAIN parsed.expr_pool :
           /\ ValidStmtRefs(parsed, StmtRefsOf(parsed.expr_pool[i]))
           /\ ValidExprRefs(parsed, ExprRefsOf(parsed.expr_pool[i]))
    /\ \A i \in DOMAIN parsed.adds :
           Let(parsed.adds[i], LAMBDA a :
               IF a.pool = "stmt"
               THEN a.ref < Len(parsed.stmt_pool) /\ Pool_get(parsed.stmt_pool, a.ref) = a.obj
               ELSE a.ref < Len(parsed.expr_pool) /\ Pool_get(parsed.expr_pool, a.ref) = a.obj)
    /\ parsed.ok => /\ Len(parsed.roots) = Len(parsed.statements)
                    /\ ExpandStmts(parsed, parsed.roots) = parsed.statements
                    /\ program = parsed.statements

\* a for statement with a brace body was parsed: one root statement, a
\* Block that holds two statement handles and a Binary that holds two
\* expression handles
ArenaHandlesValidWitness ==
    /\ source = TextForBlock
    /\ parsed.ok
    /\ Len(parsed.roots) >= 1
    /\ \E i \in DOMAIN parsed.stmt_pool :
           parsed.stmt_pool[i].k = "Block" /\ Cardinality(StmtRefsOf(parsed.stmt_pool[i])) = 2
    /\ \E i \in DOMAIN parsed.expr_pool :
           parsed.expr_pool[i].k = "Binary" /\ Cardinality(ExprRefsOf(parsed.expr_pool[i])) = 2

\* C26 (in_initializer is call-scoped): when a call expression has its
\* value, in_initializer is what it was when the callee was applied, and at
\* the start of every top-level statement, whatever the statements before it
\* did (a runtime error inside a call included), in_initializer is false.
InInitializerCallScoped ==
    /\ \A e \in Events("called") : Trace[e].flag = Trace[Trace[e].at].flag
    /\ phase = "running" => ~interp.in_initializer

\* C27 (top-level statements start clean): at the start of every top-level
\* statement, and when the program has ended, the current environment is the
\* globals frame and the return slot is empty, whatever the statements
\* before did (blocks, calls that returned a value, runtime errors raised
\* inside nested blocks, calls and class statements).
TopLevelStartsClean ==
    phase \in {"running", "finished"} =>
        /\ interp.environment = Globals
        /\ interp.return_value = Nothing

\* the next top-level statement is about to start after a call that returned
\* a value and after a runtime error that was raised inside a nested block
TopLevelStartsCleanWitness ==
    /\ phase = "running"
    /\ pc > 1
    /\ pc <= Len(program)
    /\ \E e \in Events("return") : Trace[e].value # Nothing /\ Trace[e].depth > 0
    /\ \E e \in Events("report") : Trace[e].envs > 2

\* the "call" record of the body that the call applied at i runs: the next
\* record but for the one of the object a class call makes
BodyOf(i) ==
    {j \in Events("call") :
        j > i /\ \A m \in (i + 1)..(j - 1) : Trace[m].ev = "new_object"}
\* the process died in Function::call right after a class with an init
\* method was applied and its object made
DiedBindingInit ==
    /\ phase = "crashed"
    /\ Len(Trace) >= 2
    /\ Trace[Len(Trace)].ev = "new_object"
    /\ Trace[Len(Trace) - 1].ev = "apply"
    /\ Trace[Len(Trace) - 1].init

\* C28 (arity is checked before binding): whenever the body of a function
\* or of an init method is run for a call expression, the number of
\* evaluated arguments is the number of parameters that are bound, and a
\* class called with fewer arguments than its init declares does not take
\* the process down.
ArityCheckedBeforeBinding ==
    /\ \A i \in Events("apply") : \A j \in BodyOf(i) : Trace[j].params = Trace[i].evaluated
    /\ ~DiedBindingInit

\* the operators that begin with one of '*', '!', '=', '<', '>', '/'
OperatorChars == {"*", "!", "=", "<", ">", "/"}
OperatorLexemes ==
    {<<"*">>, <<"!">>, <<"=">>, <<"<">>, <<">">>, <<"/">>,
     <<"!", "=">>, <<"=", "=">>, <<"<", "=">>, <<">", "=">>}
\* the scanner has read an operator, outside strings and comments, and
\* nothing after it yet
OperatorPending(sc) ==
    /\ sc.current_kind = "Nothing"
    /\ sc.chars \in OperatorLexemes
    /\ sc.mode \in {"code", "slash"}
\* the first character of an identifier, a number or a string
StartsOperand(c) == valid_identifier(c) \/ (valid_digit(c) /\ c # ".") \/ c = "\""
\* two scanner states that emit the same tokens from here on
SameScan(a, b) ==
    /\ a.tokens = b.tokens
    /\ a.current_token = b.current_token
    /\ a.chars = b.chars
    /\ a.current_kind = b.current_kind
    /\ a.current_token_number = b.current_token_number
    /\ a.text = b.text

\* reading the first character of an operand right after an operator gives
\* what reading a space and then that character gives
GlueIsSpace ==
    (phase = "source" /\ pc <= Len(source) /\ OperatorPending(scanned)
        /\ StartsOperand(source[pc]))
        => SameScan(scanned', scan_token(scan_token(scanned, " "), source[pc]))
\* a step that emits an Identifier or Number token emits the text that was
\* pending before it: that text holds no operator character
LexemeHasNoOperator ==
    (phase = "source" /\ Len(scanned'.tokens) > Len(scanned.tokens)
        /\ scanned'.tokens[Len(scanned.tokens) + 1].typ \in {"Identifier", "Number"})
        => \A k \in DOMAIN scanned.chars : scanned.chars[k] \notin OperatorChars

\* C29 (operators do not need spaces): an operator that begins with one of
\* '*', '!', '=', '<', '>', '/' is scanned the same whether or not white
\* space separates it from the identifier, number or string after it, and no
\* Identifier or Number token has a lexeme that holds an operator character.
OperatorsNeedNoSpace == [][GlueIsSpace /\ LexemeHasNoOperator]_vars

\* C30 (the parser terminates): Parser::run comes to an end on the tokens of
\* every source: every iteration of the top-level loop, of the block and
\* class-body loops and of the loop of synchronize that goes on has moved
\* the cursor forward (the loop of synchronize by one token), the cursor
\* never passes the Eof token, and the run ends with the cursor on Eof
\* (unless a number literal took the process down).
ParserTerminates ==
    (phase \notin {"source", "scanned"} /\ source # <<>>) =>
        /\ \A i \in DOMAIN parsed.iters :
               /\ parsed.iters[i].before < parsed.iters[i].after
               /\ parsed.iters[i].after <= Len(scanned.tokens) - 1
               /\ parsed.iters[i].loop = "synchronize"
                      => parsed.iters[i].after = parsed.iters[i].before + 1
        /\ parsed.current <= Len(scanned.tokens) - 1
        /\ ~parsed.panic => scanned.tokens[parsed.current + 1].typ = "Eof"

\* the parse of '{ print 1;' followed by 'class A { m ( ) { } g': the block
\* and class-body loops went round, the error at the end of the tokens was
\* synchronized and the run ended on Eof
ParserTerminatesWitness ==
    /\ phase = "unparsed"
    /\ source = TextBlockEnd \o <<" ">> \o TextClassEnd
    /\ \E i \in DOMAIN parsed.iters : parsed.iters[i].loop = "block"
    /\ \E i \in DOMAIN parsed.iters : parsed.iters[i].loop = "class"
    /\ parsed.syncs > 0
    /\ parsed.current = Len(scanned.tokens) - 1

====
